---- MODULE Spec2Model ----
(***************************************************************************)
(* MultiState: multi-target pathfinding (MultiTargetPathFinder) and phased *)
(* transition execution (TransitionExecutor).                              *)
(*                                                                         *)
(* States and transitions are identified by their id (State.__eq__,        *)
(* Transition.__eq__), so a set of State objects is a set of state ids.    *)
(* Costs are naturals; one unit is the unit of the A* heuristic.           *)
(***************************************************************************)
EXTENDS Integers, Sequences, FiniteSets, TLC

VARIABLES
    \* ---- MultiTargetPathFinder ----
    transitions,       \* self.transitions: the list given to the constructor
    strategy,          \* self.strategy
    current_states,    \* argument of find_path_to_all
    target_states,     \* argument of find_path_to_all
    pf_pc,             \* position in find_path_to_all
    nodes,             \* the PathNode objects that were queued, in creation order
    queue,             \* BFS deque of node indices
    heap,              \* Dijkstra / A* heap: set of (key, node index) entries
    visited,           \* closed set of PathNode keys
    best_costs,        \* best_costs (Dijkstra) / g_scores (A*): key -> cost
    path,              \* returned Optional[Path]: << >> is None, <<p>> is a Path
    \* ---- TransitionExecutor and its caller ----
    active_states,     \* the caller's active-state set, passed to the executor
    blocking,          \* the states whose State.blocking is True
    success_policy,    \* self.success_policy
    success_threshold, \* self.success_threshold, in percent
    ex_pc,             \* position in execute
    transition,        \* argument of execute
    callbacks,         \* argument of execute: << >> is None, <<c>> a TransitionCallbacks
    result,            \* the TransitionResult being built, then returned
    successfully_activated,  \* local set of execute
    failed_incoming,         \* local set of execute
    incoming_results,        \* local dict of execute: state id -> bool
    outgoing_calls,    \* how often this execute invoked an outgoing action
    incoming_calls,    \* how often this execute invoked each state's incoming action
    last_call,         \* the action this execute invoked last, and what it did
    query,             \* what the last can_execute / get_result_states returned
    first_blocking,    \* the blocking state an iteration of the active set meets first
    \* ---- StateManager (its active set is active_states) ----
    mg_pc,             \* "off": no manager; "idle"; "executing": in execute_transition
    config,            \* self.config
    initial_states,    \* local of execute_transition
    transition_history,\* self.transition_history
    mg_returned,       \* what the last manager operation returned or raised
    \* ---- ReliabilityTracker ----
    reliability_tracker,        \* the executor's field: "None" or "tracker"
    stats,                      \* self._stats: id -> counts (no entry: zeros)
    cost_multiplier_on_failure, \* tracker parameters, as fractions <<n, d>>
    min_cost_multiplier,
    max_cost_multiplier,
    execute_calls,              \* how often execute was called with the tracker, per id
    cost_query,                 \* what the last get_dynamic_cost was asked and returned
    \* ---- State and StateGroup objects ----
    group,             \* State.group of every state: a group id or "None"
    sg_built,          \* ids of the StateGroup objects that exist
    sg_states,         \* StateGroup.states of every such object
    sg_call            \* the last StateGroup call and whether it raised

pf_vars == <<transitions, strategy, current_states, target_states, pf_pc,
             nodes, queue, heap, visited, best_costs, path>>

ex_vars == <<active_states, blocking, success_policy, success_threshold, ex_pc,
             transition, callbacks, result, successfully_activated,
             failed_incoming, incoming_results, outgoing_calls, incoming_calls,
             last_call, query, first_blocking>>

mg_vars == <<mg_pc, config, initial_states, transition_history, mg_returned>>

rt_vars == <<reliability_tracker, stats, cost_multiplier_on_failure,
             min_cost_multiplier, max_cost_multiplier, execute_calls, cost_query>>

sg_vars == <<group, sg_built, sg_states, sg_call>>

vars == <<pf_vars, ex_vars, mg_vars, rt_vars, sg_vars>>

----------------------------------------------------------------------------
(* Bounds of the model *)

MaxTransitions == 3     \* length of the transition list given to the finder
MaxTargets == 3         \* size of the target set
MaxStart == 1           \* size of the start configuration

----------------------------------------------------------------------------
(* States, groups, transitions *)

StateIds == {"a", "b", "c", "d"}
GroupIds == {"g1"}

\* StateGroup.states for each group id
GroupStates == [g \in GroupIds |-> {"c", "d"}]

\* State.group, as wired by StateGroup.__post_init__ ("None" when in no group)
StateGroupOf(s) ==
    IF \E g \in GroupIds : s \in GroupStates[g]
    THEN CHOOSE g \in GroupIds : s \in GroupStates[g]
    ELSE "None"

\* State.blocks as the states are built: the ids a state is declared to block
blocks == [s \in StateIds |-> IF s = "b" THEN {"c"} ELSE IF s = "c" THEN {"d"} ELSE {}]

\* State.get_blocked_states
get_blocked_states(s) == blocks[s]

\* Transition dataclass.  action is "None" or "callable"; incoming_actions is
\* the set of state ids the dict has a callable for.  The dataclass declares
\* no stays_visible field: "MISSING" is what the constructor leaves.
Transition(id, from_states, activate_states, exit_states, activate_groups, exit_groups, path_cost) ==
    [id |-> id, from_states |-> from_states,
     activate_states |-> activate_states, exit_states |-> exit_states,
     activate_groups |-> activate_groups, exit_groups |-> exit_groups,
     action |-> "None", incoming_actions |-> {},
     path_cost |-> path_cost, stays_visible |-> "MISSING"]

\* Transition.can_execute_from
can_execute_from(t, active) ==
    IF t.from_states = {} THEN TRUE
    ELSE (t.from_states \cap active) # {}

\* get_all_states_to_activate leaving the groups' members out
get_all_states_to_activate_NoGroups(t) == t.activate_states

\* Transition.get_all_states_to_activate
get_all_states_to_activate(t) ==
    t.activate_states \cup UNION {GroupStates[g] : g \in t.activate_groups}

\* Transition.get_all_states_to_exit
get_all_states_to_exit(t) ==
    t.exit_states \cup UNION {GroupStates[g] : g \in t.exit_groups}

\* The transitions a finder may be built from, in registration order.
PathPool == <<
    Transition("p1", {"a"}, {"b"}, {"a"}, {}, {}, 1),
    Transition("p2", {"b"}, {"c"}, {"b"}, {}, {}, 1),
    Transition("p3", {"a"}, {"c"}, {"a"}, {}, {}, 3),
    Transition("p4", {}, {"a"}, {}, {}, {}, 1),
    Transition("p5", {"a"}, {"b"}, {}, {"g1"}, {}, 1),
    Transition("p6", {}, {"b"}, {}, {"g1"}, {}, 3),
    Transition("p7", {"b"}, {"a"}, {"b"}, {}, {}, 0),
    Transition("p8", {"c"}, {"d"}, {}, {}, {"g1"}, 2) >>

SearchStrategy == {"bfs", "dijkstra", "astar"}

\* The members of a set of indices in increasing order
RECURSIVE Sorted(_)
Sorted(I) ==
    IF I = {} THEN << >>
    ELSE LET m == CHOOSE x \in I : \A y \in I : x <= y
         IN  <<m>> \o Sorted(I \ {m})

\* The sub-lists of a list with at most n entries
SubLists(list, n) ==
    {[k \in 1..Cardinality(I) |-> list[Sorted(I)[k]]] :
        I \in {J \in SUBSET (1..Len(list)) : Cardinality(J) <= n}}

Range(q) == {q[i] : i \in 1..Len(q)}

\* The orders in which Python may iterate over a set
Orders(S) == {q \in [1..Cardinality(S) -> S] : Range(q) = S}

\* The first blocking state of one iteration order ("None" when it has none):
\* the state the loop of can_execute decides on
FirstBlocking(order, is_blocking) ==
    LET hits == {i \in 1..Len(order) : order[i] \in is_blocking}
    IN  IF hits = {} THEN "None"
        ELSE order[CHOOSE i \in hits : \A j \in hits : i <= j]

\* What a set object's iteration order may put first among its blocking states
FirstBlockingChoices(S, is_blocking) ==
    {FirstBlocking(o, is_blocking) : o \in Orders(S)}

\* The iteration orders of a set object that was not modified since the
\* first blocking state was seen: a set iterates the same way every time
IterationOrders(S, is_blocking, first) ==
    {o \in Orders(S) : FirstBlocking(o, is_blocking) = first}

----------------------------------------------------------------------------
(* MultiTargetPathFinder *)

\* PathNode dataclass; parent is an index into nodes (0: None) and
\* transition_taken an index into transitions (0: None)
PathNode(active, targets_reached, transition_taken, parent, cost, depth) ==
    [active_states |-> active, targets_reached |-> targets_reached,
     transition_taken |-> transition_taken, parent |-> parent,
     cost |-> cost, depth |-> depth]

\* PathNode.__hash__ / PathNode.__eq__: the pair a node is identified by
NodeKey(n) == <<n.active_states, n.targets_reached>>

\* A Path whose states_sequence lacks the start configuration
Path_WithoutStart(states_sequence, transitions_sequence, targets, total_cost) ==
    [states_sequence |-> Tail(states_sequence),
     transitions_sequence |-> transitions_sequence,
     targets |-> targets, total_cost |-> total_cost]

\* Path dataclass
Path(states_sequence, transitions_sequence, targets, total_cost) ==
    [states_sequence |-> states_sequence,
     transitions_sequence |-> transitions_sequence,
     targets |-> targets, total_cost |-> total_cost]

\* Path.is_complete
is_complete(p) ==
    p.targets \subseteq
        UNION {p.states_sequence[i] : i \in 1..Len(p.states_sequence)}

\* _build_transition_graph without its "*" entry
transitions_from_state_NoWildcard(trs, key) ==
    SelectSeq([i \in 1..Len(trs) |-> i],
              LAMBDA i : key # "*" /\ key \in trs[i].from_states)

\* The list self.transitions_from_state[key] built by _build_transition_graph:
\* indices into trs, in list order; key "*" lists the wildcard transitions
transitions_from_state(trs, key) ==
    SelectSeq([i \in 1..Len(trs) |-> i],
              LAMBDA i : IF key = "*" THEN trs[i].from_states = {}
                         ELSE key \in trs[i].from_states)

\* "if transition not in available: available.append(transition)"
RECURSIVE AppendNew(_, _, _)
AppendNew(trs, available, more) ==
    IF more = << >> THEN available
    ELSE AppendNew(trs,
             IF \E j \in 1..Len(available) :
                    trs[available[j]].id = trs[Head(more)].id
             THEN available ELSE Append(available, Head(more)),
             Tail(more))

\* _get_available_transitions, with order the iteration order of active_states
RECURSIVE AvailableFrom(_, _, _)
AvailableFrom(trs, order, available) ==
    IF order = << >> THEN available
    ELSE AvailableFrom(trs, Tail(order),
             AppendNew(trs, available, transitions_from_state(trs, Head(order))))

_get_available_transitions(trs, order) ==
    AppendNew(trs, AvailableFrom(trs, order, << >>),
              transitions_from_state(trs, "*"))

\* _apply_transition removing the exit-set after adding the activate-set
_apply_transition_ExitLast(active, t) ==
    (active \cup get_all_states_to_activate(t)) \ get_all_states_to_exit(t)

\* _apply_transition
_apply_transition(active, t) ==
    (active \ get_all_states_to_exit(t)) \cup get_all_states_to_activate(t)

\* _heuristic
_heuristic(n, targets) ==
    LET remaining_targets == targets \ n.targets_reached
    IN  IF remaining_targets = {} THEN 0 ELSE Cardinality(remaining_targets)

\* The parent chain of node i, root first
RECURSIVE ParentChain(_, _)
ParentChain(ns, i) ==
    IF i = 0 THEN << >> ELSE Append(ParentChain(ns, ns[i].parent), i)

\* _reconstruct_path whose backwards walk stops at the root instead of
\* after it ("while current.parent is not None")
_reconstruct_path_StopsAtRoot(ns, trs, end, targets) ==
    LET chain == Tail(ParentChain(ns, end))
    IN  Path([k \in 1..Len(chain) |-> ns[chain[k]].active_states],
             [k \in 1..Len(chain) |-> trs[ns[chain[k]].transition_taken].id],
             targets, ns[end].cost)

\* _reconstruct_path
_reconstruct_path(ns, trs, end, targets) ==
    LET chain == ParentChain(ns, end)
        taken == SelectSeq(chain, LAMBDA i : ns[i].transition_taken # 0)
    IN  Path([k \in 1..Len(chain) |-> ns[chain[k]].active_states],
             [k \in 1..Len(taken) |-> trs[ns[taken[k]].transition_taken].id],
             targets, ns[end].cost)

\* The child PathNode with targets_reached recomputed from the new
\* configuration alone
ChildNode_Forgetful(ns, trs, parent, ti, targets) ==
    LET new_states == _apply_transition(ns[parent].active_states, trs[ti])
    IN  PathNode(new_states, targets \cap new_states, ti, parent,
                 ns[parent].cost + trs[ti].path_cost,
                 ns[parent].depth + 1)

\* The child PathNode built in the body of each search loop
ChildNode(ns, trs, parent, ti, targets) ==
    LET new_states == _apply_transition(ns[parent].active_states, trs[ti])
    IN  PathNode(new_states,
                 ns[parent].targets_reached \cup (targets \cap new_states),
                 ti, parent,
                 ns[parent].cost + trs[ti].path_cost,
                 ns[parent].depth + 1)

\* The start node of every search
StartNode_Costly(cs, ts) == PathNode(cs, ts \cap cs, 0, 0, 1, 0)

StartNode(cs, ts) == PathNode(cs, ts \cap cs, 0, 0, 0, 0)

\* queue.appendleft in place of queue.append
QueueAppendLeft(q, i) == <<i>> \o q

\* queue.append (line 229)
QueueAppend(q, i) == Append(q, i)

\* a loop that puts the node it took back at the end of the queue
popleft_Requeue(q) == Append(Tail(q), Head(q))

\* what queue.popleft() leaves in the queue (line 198)
popleft(q) == Tail(q)

\* Body of the BFS loop over the available transitions (lines 204-229)
RECURSIVE BfsExpand(_, _, _, _, _)
BfsExpand(trs, parent, avail, targets, acc) ==
    IF avail = << >> THEN acc
    ELSE LET new_node == ChildNode(acc.nodes, trs, parent, Head(avail), targets)
         IN  BfsExpand(trs, parent, Tail(avail), targets,
                 IF NodeKey(new_node) \notin acc.visited
                 THEN [nodes |-> Append(acc.nodes, new_node),
                       queue |-> QueueAppend(acc.queue, Len(acc.nodes) + 1),
                       visited |-> acc.visited \cup {NodeKey(new_node)}]
                 ELSE acc)

\* dict assignment d[k] = v
DictSet(d, k, v) == [x \in DOMAIN d \cup {k} |-> IF x = k THEN v ELSE d[x]]

\* The push test without "or new_cost < best_costs[new_node]"
OnlyIfUnseen(k, new_cost, closed, best) ==
    k \notin closed /\ k \notin DOMAIN best

\* "Only explore if better cost" (lines 291-292 and 356-357)
OnlyIfBetter(k, new_cost, closed, best) ==
    /\ k \notin closed
    /\ \/ k \notin DOMAIN best
       \/ new_cost < best[k]

\* Body of the Dijkstra / A* loop over the available transitions
\* (lines 269-294 and 335-361); h is TRUE for A*, whose heap key adds
\* the heuristic
RECURSIVE CostExpand(_, _, _, _, _, _, _)
CostExpand(trs, parent, avail, targets, closed, h, acc) ==
    IF avail = << >> THEN acc
    ELSE LET new_node == ChildNode(acc.nodes, trs, parent, Head(avail), targets)
             k == NodeKey(new_node)
             f_score == IF h THEN new_node.cost + _heuristic(new_node, targets)
                        ELSE new_node.cost
         IN  CostExpand(trs, parent, Tail(avail), targets, closed, h,
                 IF OnlyIfBetter(k, new_node.cost, closed, acc.best_costs)
                 THEN [nodes |-> Append(acc.nodes, new_node),
                       heap |-> acc.heap \cup
                                {[key |-> f_score, node |-> Len(acc.nodes) + 1]},
                       best_costs |-> DictSet(acc.best_costs, k, new_node.cost)]
                 ELSE acc)

\* Tuple comparison (key, node) < (key, node) as heapq evaluates it:
\* the keys first, then PathNode.__eq__ and PathNode.__lt__
EntryLess(ns, x, e) ==
    \/ x.key < e.key
    \/ /\ x.key = e.key
       /\ NodeKey(ns[x.node]) # NodeKey(ns[e.node])
       /\ ns[x.node].cost < ns[e.node].cost

\* The entries heapq.heappop may return: no other entry is less
heappop(ns, h) == {e \in h : \A x \in h : ~EntryLess(ns, x, e)}

\* ---- find_path_to_all: the early returns and the dispatch ----

StartConfigs == {cs \in SUBSET StateIds : Cardinality(cs) <= MaxStart}
TargetSets == {ts \in SUBSET StateIds : Cardinality(ts) <= MaxTargets}

\* lines 154-156: no targets
FindPathNoTargets(cs, ts) ==
    /\ pf_pc = "ready"
    /\ ts = {}
    /\ current_states' = cs /\ target_states' = ts
    /\ path' = <<Path(<<cs>>, << >>, ts, 0)>>
    /\ pf_pc' = "done"
    /\ UNCHANGED ex_vars
    /\ UNCHANGED mg_vars
    /\ UNCHANGED sg_vars
    /\ UNCHANGED rt_vars
    /\ UNCHANGED <<transitions, strategy, nodes, queue, heap, visited, best_costs>>

\* The early return with states_sequence left at its default, the empty list
FindPathAlreadyThere_NoStart(cs, ts) ==
    /\ pf_pc = "ready"
    /\ ts # {} /\ ts \subseteq cs
    /\ current_states' = cs /\ target_states' = ts
    /\ path' = <<Path(<< >>, << >>, ts, 0)>>
    /\ pf_pc' = "done"
    /\ UNCHANGED ex_vars
    /\ UNCHANGED mg_vars
    /\ UNCHANGED sg_vars
    /\ UNCHANGED rt_vars
    /\ UNCHANGED <<transitions, strategy, nodes, queue, heap, visited, best_costs>>

\* lines 158-164: every target is already active
FindPathAlreadyThere(cs, ts) ==
    /\ pf_pc = "ready"
    /\ ts # {} /\ ts \subseteq cs
    /\ current_states' = cs /\ target_states' = ts
    /\ path' = <<Path(<<cs>>, << >>, ts, 0)>>
    /\ pf_pc' = "done"
    /\ UNCHANGED ex_vars
    /\ UNCHANGED mg_vars
    /\ UNCHANGED sg_vars
    /\ UNCHANGED rt_vars
    /\ UNCHANGED <<transitions, strategy, nodes, queue, heap, visited, best_costs>>

\* lines 166-167 and 185-194: _bfs_search up to the loop
BfsStart(cs, ts) ==
    /\ pf_pc = "ready" /\ strategy = "bfs"
    /\ ts # {} /\ ~(ts \subseteq cs)
    /\ current_states' = cs /\ target_states' = ts
    /\ nodes' = <<StartNode(cs, ts)>>
    /\ queue' = <<1>>
    /\ visited' = {NodeKey(StartNode(cs, ts))}
    /\ pf_pc' = "bfs"
    /\ UNCHANGED ex_vars
    /\ UNCHANGED mg_vars
    /\ UNCHANGED sg_vars
    /\ UNCHANGED rt_vars
    /\ UNCHANGED <<transitions, strategy, heap, best_costs, path>>

\* lines 168-169 and 243-254: _dijkstra_search up to the loop
DijkstraStart(cs, ts) ==
    /\ pf_pc = "ready" /\ strategy = "dijkstra"
    /\ ts # {} /\ ~(ts \subseteq cs)
    /\ current_states' = cs /\ target_states' = ts
    /\ nodes' = <<StartNode(cs, ts)>>
    /\ heap' = {[key |-> 0, node |-> 1]}
    /\ visited' = {}
    /\ best_costs' = DictSet(best_costs, NodeKey(StartNode(cs, ts)), 0)
    /\ pf_pc' = "dijkstra"
    /\ UNCHANGED ex_vars
    /\ UNCHANGED mg_vars
    /\ UNCHANGED sg_vars
    /\ UNCHANGED rt_vars
    /\ UNCHANGED <<transitions, strategy, queue, path>>

\* lines 170-171 and 308-321: _astar_search up to the loop
AStarStart(cs, ts) ==
    /\ pf_pc = "ready" /\ strategy = "astar"
    /\ ts # {} /\ ~(ts \subseteq cs)
    /\ current_states' = cs /\ target_states' = ts
    /\ nodes' = <<StartNode(cs, ts)>>
    /\ heap' = {[key |-> _heuristic(StartNode(cs, ts), ts), node |-> 1]}
    /\ visited' = {}
    /\ best_costs' = DictSet(best_costs, NodeKey(StartNode(cs, ts)), 0)
    /\ pf_pc' = "astar"
    /\ UNCHANGED ex_vars
    /\ UNCHANGED mg_vars
    /\ UNCHANGED sg_vars
    /\ UNCHANGED rt_vars
    /\ UNCHANGED <<transitions, strategy, queue, path>>

\* ---- _bfs_search: one iteration of "while queue" ----

\* lines 197-201: the node taken from the queue has reached every target
BfsGoal ==
    /\ pf_pc = "bfs" /\ queue # << >>
    /\ nodes[Head(queue)].targets_reached = target_states
    /\ path' = <<_reconstruct_path(nodes, transitions, Head(queue), target_states)>>
    /\ queue' = Tail(queue)
    /\ pf_pc' = "done"
    /\ UNCHANGED ex_vars
    /\ UNCHANGED mg_vars
    /\ UNCHANGED sg_vars
    /\ UNCHANGED rt_vars
    /\ UNCHANGED <<transitions, strategy, current_states, target_states,
                   nodes, heap, visited, best_costs>>

\* lines 197-229: the node taken from the queue is expanded
BfsIterate ==
    /\ pf_pc = "bfs" /\ queue # << >>
    /\ nodes[Head(queue)].targets_reached # target_states
    /\ \E order \in Orders(nodes[Head(queue)].active_states) :
         LET acc == BfsExpand(transitions, Head(queue),
                        _get_available_transitions(transitions, order),
                        target_states,
                        [nodes |-> nodes, queue |-> popleft(queue),
                         visited |-> visited])
         IN  /\ nodes' = acc.nodes
             /\ queue' = acc.queue
             /\ visited' = acc.visited
    /\ UNCHANGED ex_vars
    /\ UNCHANGED mg_vars
    /\ UNCHANGED sg_vars
    /\ UNCHANGED rt_vars
    /\ UNCHANGED <<transitions, strategy, current_states, target_states,
                   pf_pc, heap, best_costs, path>>

\* lines 231-232: the queue is empty
BfsExhausted ==
    /\ pf_pc = "bfs" /\ queue = << >>
    /\ path' = << >>
    /\ pf_pc' = "done"
    /\ UNCHANGED ex_vars
    /\ UNCHANGED mg_vars
    /\ UNCHANGED sg_vars
    /\ UNCHANGED rt_vars
    /\ UNCHANGED <<transitions, strategy, current_states, target_states,
                   nodes, queue, heap, visited, best_costs>>

\* ---- _dijkstra_search / _astar_search: one iteration of "while heap" ----

\* lines 257-261 / 324-327: the popped node is already closed
HeapSkip(name) ==
    /\ pf_pc = name /\ heap # {}
    /\ \E e \in heappop(nodes, heap) :
         /\ NodeKey(nodes[e.node]) \in visited
         /\ heap' = heap \ {e}
    /\ UNCHANGED ex_vars
    /\ UNCHANGED mg_vars
    /\ UNCHANGED sg_vars
    /\ UNCHANGED rt_vars
    /\ UNCHANGED <<transitions, strategy, current_states, target_states,
                   pf_pc, nodes, queue, visited, best_costs, path>>

\* lines 257-266 / 324-332: the popped node has reached every target
HeapGoal(name) ==
    /\ pf_pc = name /\ heap # {}
    /\ \E e \in heappop(nodes, heap) :
         /\ NodeKey(nodes[e.node]) \notin visited
         /\ nodes[e.node].targets_reached = target_states
         /\ heap' = heap \ {e}
         /\ visited' = visited \cup {NodeKey(nodes[e.node])}
         /\ path' = <<_reconstruct_path(nodes, transitions, e.node, target_states)>>
    /\ pf_pc' = "done"
    /\ UNCHANGED ex_vars
    /\ UNCHANGED mg_vars
    /\ UNCHANGED sg_vars
    /\ UNCHANGED rt_vars
    /\ UNCHANGED <<transitions, strategy, current_states, target_states,
                   nodes, queue, best_costs>>

\* lines 257-294 / 324-361: the popped node is expanded
HeapIterate(name) ==
    /\ pf_pc = name /\ heap # {}
    /\ \E e \in heappop(nodes, heap) :
         /\ NodeKey(nodes[e.node]) \notin visited
         /\ nodes[e.node].targets_reached # target_states
         /\ visited' = visited \cup {NodeKey(nodes[e.node])}
         /\ \E order \in Orders(nodes[e.node].active_states) :
              LET acc == CostExpand(transitions, e.node,
                             _get_available_transitions(transitions, order),
                             target_states, visited', name = "astar",
                             [nodes |-> nodes, heap |-> heap \ {e},
                              best_costs |-> best_costs])
              IN  /\ nodes' = acc.nodes
                  /\ heap' = acc.heap
                  /\ best_costs' = acc.best_costs
    /\ UNCHANGED ex_vars
    /\ UNCHANGED mg_vars
    /\ UNCHANGED sg_vars
    /\ UNCHANGED rt_vars
    /\ UNCHANGED <<transitions, strategy, current_states, target_states,
                   pf_pc, queue, path>>

\* line 296 / 363: the heap is empty
HeapExhausted(name) ==
    /\ pf_pc = name /\ heap = {}
    /\ path' = << >>
    /\ pf_pc' = "done"
    /\ UNCHANGED ex_vars
    /\ UNCHANGED mg_vars
    /\ UNCHANGED sg_vars
    /\ UNCHANGED rt_vars
    /\ UNCHANGED <<transitions, strategy, current_states, target_states,
                   nodes, queue, heap, visited, best_costs>>

DijkstraSkip == HeapSkip("dijkstra")
DijkstraGoal == HeapGoal("dijkstra")
DijkstraIterate == HeapIterate("dijkstra")
DijkstraExhausted == HeapExhausted("dijkstra")
AStarSkip == HeapSkip("astar")
AStarGoal == HeapGoal("astar")
AStarIterate == HeapIterate("astar")
AStarExhausted == HeapExhausted("astar")

\* ---- ReliabilityTracker (transitions/reliability.py) ----

\* Most execute calls made on an executor that has a tracker, and most
\* records made on a tracker used directly
MaxCalls == 2

\* Floats are followed as exact fractions <<n, d>> with d > 0, in lowest terms
RECURSIVE Gcd(_, _)
Gcd(m, n) == IF n = 0 THEN m ELSE Gcd(n, m % n)

Abs(x) == IF x < 0 THEN -x ELSE x

Frac(n, d) ==
    LET g == Gcd(Abs(n), d)
    IN  IF n = 0 THEN <<0, 1>> ELSE <<n \div g, d \div g>>

FracAdd(x, y) == Frac(x[1] * y[2] + y[1] * x[2], x[2] * y[2])
FracSub(x, y) == Frac(x[1] * y[2] - y[1] * x[2], x[2] * y[2])
FracMul(x, y) == Frac(x[1] * y[1], x[2] * y[2])
FracLeq(x, y) == x[1] * y[2] <= y[1] * x[2]
FracMax(x, y) == IF FracLeq(x, y) THEN y ELSE x
FracMin(x, y) == IF FracLeq(x, y) THEN x ELSE y
One == <<1, 1>>

\* The transition ids a tracker is asked about
TrackedIds == {"e1", "e2", "e3", "e4", "e5", "e6"}

\* TransitionStats dataclass (the fields the model follows)
TransitionStats(success_count, failure_count, base_cost) ==
    [success_count |-> success_count, failure_count |-> failure_count,
     base_cost |-> base_cost]

\* self._stats of a new tracker; get_stats creates a zero entry on demand
NoStats == [id \in TrackedIds |-> TransitionStats(0, 0, One)]

\* TransitionStats.total_attempts
total_attempts(st) == st.success_count + st.failure_count

\* TransitionStats.success_rate
success_rate(st) ==
    IF total_attempts(st) = 0 THEN One
    ELSE Frac(st.success_count, total_attempts(st))

\* TransitionStats.failure_rate
failure_rate(st) == FracSub(One, success_rate(st))

\* ReliabilityTracker.record_success
record_success(trk, id) == [trk EXCEPT ![id].success_count = @ + 1]

\* ReliabilityTracker.record_failure
record_failure(trk, id) == [trk EXCEPT ![id].failure_count = @ + 1]

\* ReliabilityTracker.reset_stats: None clears the dictionary, an id deletes
\* its entry (an id without entry is left alone); a deleted entry reads as
\* the zero entry get_stats creates on demand
reset_stats(trk, id) ==
    IF id = "None" THEN NoStats
    ELSE [trk EXCEPT ![id] = NoStats[id]]

\* execute reporting a failure as a success
track_AlwaysSuccess(field, trk, id, success) ==
    IF field = "None" THEN trk ELSE record_success(trk, id)

\* "if self.reliability_tracker and start_time is not None: record_..."
track(field, trk, id, success) ==
    IF field = "None" THEN trk
    ELSE IF success THEN record_success(trk, id)
    ELSE record_failure(trk, id)

\* get_dynamic_cost without the clamp
get_dynamic_cost_Unclamped(st, penalty, lo, hi, base_cost) ==
    IF total_attempts(st) = 0 THEN base_cost
    ELSE FracMul(base_cost,
                 FracAdd(One, FracMul(failure_rate(st), FracSub(penalty, One))))

\* ReliabilityTracker.get_dynamic_cost: the value returned
get_dynamic_cost(st, penalty, lo, hi, base_cost) ==
    IF total_attempts(st) = 0 THEN base_cost
    ELSE LET multiplier == FracAdd(One, FracMul(failure_rate(st), FracSub(penalty, One)))
             floored == FracMax(lo, multiplier)
             capped == FracMin(hi, floored)
         IN  FracMul(base_cost, capped)

\* No get_dynamic_cost was asked yet
NoCost == [id |-> "None", base_cost |-> One, returned |-> One]

\* The State objects and the ids StateGroup objects are made with
SgStates == {"s1", "s2", "s3"}
SgIds == {"g1", "g2"}

NoGroupCall == [op |-> "None", id |-> "None", states |-> {}, raised |-> FALSE]

\* No StateGroup was made; State(id, name) leaves group = None
GroupsOff ==
    /\ group = [s \in SgStates |-> "None"]
    /\ sg_built = {}
    /\ sg_states = [g \in SgIds |-> {}]
    /\ sg_call = NoGroupCall

\* No tracker: the executor's field is None
TrackerOff ==
    /\ reliability_tracker = "None"
    /\ stats = NoStats
    /\ cost_multiplier_on_failure = <<2, 1>>
    /\ min_cost_multiplier = One /\ max_cost_multiplier = <<10, 1>>
    /\ execute_calls = [id \in TrackedIds |-> 0]
    /\ cost_query = NoCost

\* How many execute calls the tracker's executor has had
TotalCalls == execute_calls["e1"] + execute_calls["e2"] + execute_calls["e3"]
              + execute_calls["e4"] + execute_calls["e5"] + execute_calls["e6"]

\* StateManagerConfig dataclass (the fields the model reads)
StateManagerConfig(allow_invalid_transitions, auto_rollback_on_failure, policy) ==
    [allow_invalid_transitions |-> allow_invalid_transitions,
     auto_rollback_on_failure |-> auto_rollback_on_failure,
     success_policy |-> policy]

\* No StateManager is in use
ManagerOff ==
    /\ mg_pc = "off"
    /\ config = StateManagerConfig(FALSE, TRUE, "strict")
    /\ initial_states = {}
    /\ transition_history = << >>
    /\ mg_returned = "None"

\* No action has been invoked
NoCall == [who |-> "None", behaviour |-> "None"]

\* No query has been made
NoQuery == [op |-> "None", id |-> "None", returned |-> {}]

\* No execute is under way: the executor's side of the state
ExecutorIdle ==
    /\ ex_pc = "idle"
    /\ transition = << >> /\ callbacks = << >>
    /\ result = << >>
    /\ successfully_activated = {} /\ failed_incoming = {}
    /\ incoming_results = << >>
    /\ outgoing_calls = 0
    /\ incoming_calls = [s \in StateIds |-> 0]
    /\ last_call = NoCall

\* MultiTargetPathFinder.__init__ followed by the state before the call
PathInit ==
    /\ GroupsOff
    /\ TrackerOff
    /\ active_states = {} /\ blocking = {}
    /\ first_blocking = "None"
    /\ success_policy = "strict" /\ success_threshold = 80
    /\ ExecutorIdle
    /\ query = NoQuery
    /\ ManagerOff
    /\ transitions \in SubLists(PathPool, MaxTransitions)
    /\ strategy \in SearchStrategy
    /\ current_states = {} /\ target_states = {}
    /\ pf_pc = "ready"
    /\ nodes = << >> /\ queue = << >> /\ heap = {} /\ visited = {}
    /\ best_costs = << >>
    /\ path = << >>

PathNext ==
    \/ \E ts \in TargetSets, cs \in StartConfigs : FindPathNoTargets(cs, ts)
    \/ \E ts \in TargetSets, cs \in StartConfigs : FindPathAlreadyThere(cs, ts)
    \/ \E ts \in TargetSets, cs \in StartConfigs : BfsStart(cs, ts)
    \/ \E ts \in TargetSets, cs \in StartConfigs : DijkstraStart(cs, ts)
    \/ \E ts \in TargetSets, cs \in StartConfigs : AStarStart(cs, ts)
    \/ BfsGoal \/ BfsIterate \/ BfsExhausted
    \/ DijkstraSkip \/ DijkstraGoal \/ DijkstraIterate \/ DijkstraExhausted
    \/ AStarSkip \/ AStarGoal \/ AStarIterate \/ AStarExhausted

PathSpec == PathInit /\ [][PathNext]_vars

\* When BfsIterate can take a step: it always changes the queue
BfsIterateEnabled ==
    /\ pf_pc = "bfs" /\ queue # << >>
    /\ nodes[Head(queue)].targets_reached # target_states

\* When HeapIterate can take a step: it always closes a new pair
HeapIterateEnabled(name) ==
    /\ pf_pc = name /\ heap # {}
    /\ \E e \in heappop(nodes, heap) :
          /\ NodeKey(nodes[e.node]) \notin visited
          /\ nodes[e.node].targets_reached # target_states

\* When one of the three expanding steps can be taken
IterateEnabled ==
    BfsIterateEnabled \/ HeapIterateEnabled("dijkstra") \/ HeapIterateEnabled("astar")

\* find_path_to_all is called, and its loop is sequential code that keeps
\* running: a step that stays possible is taken.  For the expanding steps
\* weak fairness is written out, WF_v(A) being
\* []<>~(ENABLED <<A>>_v) \/ []<><<A>>_v, with the enabling condition above.
PathFairness ==
    /\ WF_vars(pf_pc = "ready" /\ \E ts \in TargetSets, cs \in StartConfigs :
                     \/ FindPathNoTargets(cs, ts) \/ FindPathAlreadyThere(cs, ts)
                     \/ BfsStart(cs, ts) \/ DijkstraStart(cs, ts) \/ AStarStart(cs, ts))
    /\ WF_vars(\/ BfsGoal \/ BfsExhausted
               \/ DijkstraSkip \/ DijkstraGoal \/ DijkstraExhausted
               \/ AStarSkip \/ AStarGoal \/ AStarExhausted)
    /\ \/ []<>~IterateEnabled
       \/ []<><<BfsIterate \/ DijkstraIterate \/ AStarIterate>>_vars

PathLiveSpec == PathInit /\ [][PathNext]_vars /\ PathFairness

----------------------------------------------------------------------------
(* Reference: exhaustive enumeration of the covering transition sequences *)

\* The configuration after t fires: exit-set removed, activate-set added
Successor(c, t) ==
    (c \ get_all_states_to_exit(t)) \cup get_all_states_to_activate(t)

\* One more transition after every enumerated sequence.  A sequence is kept as
\* <<configuration, targets visited, weight>>, and only a lightest sequence
\* per (configuration, targets visited); unit weighs every transition 1
Extend(trs, ts, unit, F) ==
    LET cand == F \cup UNION {
            {<<Successor(x[1], trs[i]),
               x[2] \cup (ts \cap Successor(x[1], trs[i])),
               x[3] + (IF unit THEN 1 ELSE trs[i].path_cost)>> :
                i \in {j \in 1..Len(trs) : can_execute_from(trs[j], x[1])}}
            : x \in F}
    IN  {x \in cand : \A y \in cand :
            (y[1] = x[1] /\ y[2] = x[2]) => x[3] <= y[3]}

RECURSIVE Enumerate(_, _, _, _)
Enumerate(trs, ts, unit, F) ==
    LET G == Extend(trs, ts, unit, F)
    IN  IF G = F THEN F ELSE Enumerate(trs, ts, unit, G)

\* The weights of the lightest sequences from cs that visit every target
CoverWeights(trs, cs, ts, unit) ==
    {x[3] : x \in {y \in Enumerate(trs, ts, unit, {<<cs, ts \cap cs, 0>>}) :
                       y[2] = ts}}

CoverExists == CoverWeights(transitions, current_states, target_states, TRUE) # {}

MinCoverCost ==
    LET ws == CoverWeights(transitions, current_states, target_states, FALSE)
    IN  CHOOSE w \in ws : \A v \in ws : w <= v

MinCoverSteps ==
    LET ws == CoverWeights(transitions, current_states, target_states, TRUE)
    IN  CHOOSE w \in ws : \A v \in ws : w <= v

Returned == pf_pc = "done"
Found == pf_pc = "done" /\ path # << >>

----------------------------------------------------------------------------
(* Claims about find_path_to_all *)

\* C1: whenever find_path_to_all returns a path, under any strategy, every
\* target state occurs in at least one configuration of states_sequence.
C1_PathCoversTargets ==
    Found =>
        target_states \subseteq
            UNION {path[1].states_sequence[i] :
                       i \in 1..Len(path[1].states_sequence)}

C1_Witness ==
    /\ Found
    /\ Len(path[1].transitions_sequence) >= 2
    /\ Cardinality(target_states) >= 2
    /\ ~(target_states \subseteq
            path[1].states_sequence[Len(path[1].states_sequence)])

\* C2: with the Dijkstra strategy the returned path's total cost is the
\* minimum total path_cost over all fireable sequences that cover the targets.
C2_DijkstraMinimumCost ==
    (Found /\ strategy = "dijkstra") => path[1].total_cost = MinCoverCost

C2_Witness ==
    /\ Found /\ strategy = "dijkstra"
    /\ path[1].total_cost = 2
    /\ Len(path[1].transitions_sequence) = 2
    /\ MinCoverSteps = 1

\* C3: with the BFS strategy the returned path has the fewest transitions of
\* all fireable sequences that cover the targets, whatever the costs.
C3_BfsFewestTransitions ==
    (Found /\ strategy = "bfs") =>
        Len(path[1].transitions_sequence) = MinCoverSteps

C3_Witness ==
    /\ Found /\ strategy = "bfs"
    /\ Len(path[1].transitions_sequence) = 1
    /\ path[1].total_cost > MinCoverCost

\* C4: with the A* strategy and every transition cost at least 1, the returned
\* path has the minimum total cost (the cost Dijkstra returns).
C4_AStarMinimumCost ==
    (/\ Found /\ strategy = "astar"
     /\ \A i \in 1..Len(transitions) : transitions[i].path_cost >= 1)
        => path[1].total_cost = MinCoverCost

\* C5: find_path_to_all returns None exactly when no fireable sequence of
\* transitions from the start configuration visits every target.
C5_AbsentIffNoCover ==
    Returned => ((path = << >>) <=> ~CoverExists)

C5_Witness ==
    /\ Returned /\ path = << >>
    /\ transitions # << >>
    /\ Len(nodes) >= 3

C5_WitnessFound ==
    /\ Found /\ Len(path[1].transitions_sequence) = 3

\* C6: when the target set is empty or contained in the start configuration,
\* the returned path has no transitions, total cost 0, and the start
\* configuration as its only states_sequence entry.
C6_AlreadyAtTargets ==
    (Returned /\ target_states \subseteq current_states) =>
        /\ path # << >>
        /\ path[1].transitions_sequence = << >>
        /\ path[1].total_cost = 0
        /\ path[1].states_sequence = <<current_states>>

C6_Witness ==
    /\ Returned
    /\ target_states # {} /\ target_states \subseteq current_states
    /\ transitions # << >>


----------------------------------------------------------------------------
(* TransitionExecutor *)

(* A Transition built by the dataclass constructor has no stays_visible
   attribute ("MISSING"): the class declares no such field.  A caller can
   give an instance one only by assigning it afterwards, to one of the
   StaysVisible members.  The callables a transition or a registry carries
   are the caller's code; what one of them does is drawn when the executor
   invokes it: it returns True, False or None, or it raises. *)

\* StaysVisible enum, and the attribute as a constructor-built instance has it
StaysVisible == {"NONE", "TRUE", "FALSE"}
StaysVisibleAttr == StaysVisible \cup {"MISSING"}

\* The transitions handed to execute
ExecPool ==
    { Transition("e1", {"a"}, {"b"}, {"a"}, {}, {}, 1),
      Transition("e2", {}, {"b"}, {}, {"g1"}, {}, 1),
      Transition("e3", {"a", "b"}, {"c"}, {"b"}, {}, {}, 1),
      Transition("e4", {"c"}, {"d"}, {}, {}, {"g1"}, 1),
      Transition("e5", {"b"}, {}, {"b"}, {}, {}, 1),
      Transition("e6", {"a"}, {"c", "d"}, {"a", "c"}, {}, {}, 1) }

\* What a callable does when invoked
Behaviours == {"ReturnsTrue", "ReturnsFalse", "ReturnsNone", "Raises"}

\* TransitionCallbacks dataclass: the keys its two dicts have a callable for
TransitionCallbacks(outgoing, incoming) == [outgoing_callbacks |-> outgoing, incoming_callbacks |-> incoming]

\* SuccessPolicy enum
SuccessPolicy == {"strict", "lenient", "threshold"}

\* TransitionPhase enum, in declaration order
TransitionPhase == <<"VALIDATE", "OUTGOING", "ACTIVATE", "INCOMING", "EXIT", "VISIBILITY", "CLEANUP">>

\* PhaseResult dataclass (the message text is left out)
PhaseResult_Unsuccessful(phase, success, data) == [phase |-> phase, success |-> FALSE, data |-> data]

PhaseResult(phase, success, data) == [phase |-> phase, success |-> success, data |-> data]

\* TransitionResult dataclass
TransitionResult(success, phase_results, activated, deactivated, error) ==
    [success |-> success, phase_results |-> phase_results,
     activated_states |-> activated, deactivated_states |-> deactivated,
     error |-> error]

\* TransitionResult.get_failed_phase: the first failed phase, or "None"
get_failed_phase(r) ==
    LET failed == {i \in 1..Len(r.phase_results) : ~r.phase_results[i].success}
    IN  IF failed = {} THEN "None"
        ELSE r.phase_results[CHOOSE i \in failed : \A j \in failed : i <= j].phase

\* validate_groups rejecting every transition that names a group
validate_groups_Rejecting(t) == t.activate_groups = {} /\ t.exit_groups = {}

\* Transition.validate_groups: a stub that accepts everything
validate_groups(t) == TRUE

\* can_execute once the from_states test has passed: the loop over the
\* active states in iteration order; the first blocking state decides
BlockingScan(t, order, is_blocking) ==
    LET hits == {i \in 1..Len(order) : order[i] \in is_blocking}
    IN  IF hits = {} THEN TRUE
        ELSE LET s == order[CHOOSE i \in hits : \A j \in hits : i <= j]
             IN  \E n \in get_all_states_to_activate(t) :
                    /\ StateGroupOf(n) # "None"
                    /\ StateGroupOf(n) = StateGroupOf(s)

\* TransitionExecutor.can_execute, for one iteration order of active
can_execute(t, active, order, is_blocking) ==
    /\ can_execute_from(t, active)
    /\ BlockingScan(t, order, is_blocking)

\* get_result_states working on the set it was given instead of a copy
get_result_states_InPlace(t, current) ==
    [returned |-> (current \ get_all_states_to_exit(t)) \cup get_all_states_to_activate(t),
     argument |-> (current \ get_all_states_to_exit(t)) \cup get_all_states_to_activate(t)]

\* TransitionExecutor.get_result_states: what it returns, and what the set
\* object it was given holds afterwards (the work is done on a copy)
get_result_states(t, current) ==
    [returned |-> (current \ get_all_states_to_exit(t)) \cup get_all_states_to_activate(t),
     argument |-> current]

\* The value get_result_states returns
ResultStates(t, current) == get_result_states(t, current).returned

\* TransitionExecutor._update_visibility; source is the set execute passes as
\* from_states.  Reading stays_visible from an instance without the
\* attribute raises AttributeError
_update_visibility(t, source, activated) ==
    LET source_states == source \ get_all_states_to_exit(t)
    IN  IF t.stays_visible = "MISSING" THEN [raised |-> "AttributeError"]
        ELSE [raised |-> "None",
              stays_visible |-> t.stays_visible,
              states_to_hide |-> IF t.stays_visible = "FALSE" THEN source_states ELSE {},
              states_to_show |-> IF t.stays_visible = "TRUE" THEN source_states ELSE {}]

\* TransitionExecutor._evaluate_incoming_success; the threshold is in
\* percent, so success_rate >= threshold is compared in integers
_evaluate_incoming_success(policy, threshold, activated, failed) ==
    LET total_count == Cardinality(activated)
        successful_count == total_count - Cardinality(failed)
    IN  IF activated = {} THEN TRUE
        ELSE IF policy = "strict" THEN Cardinality(failed) = 0
        ELSE IF policy = "lenient" THEN TRUE
        ELSE IF policy = "threshold"
             THEN successful_count * 100 >= threshold * total_count
        ELSE FALSE

\* TransitionCallbacks.execute_outgoing: no callback is success, an
\* exception is failure, otherwise "callback() is not False"
execute_outgoing(cbs, transition_id, b) ==
    IF transition_id \notin cbs.outgoing_callbacks THEN TRUE
    ELSE IF b = "Raises" THEN FALSE
    ELSE b # "ReturnsFalse"

\* TransitionCallbacks.execute_incoming
execute_incoming(cbs, transition_id, state_id, b) ==
    IF <<transition_id, state_id>> \notin cbs.incoming_callbacks THEN TRUE
    ELSE IF b = "Raises" THEN FALSE
    ELSE b # "ReturnsFalse"

\* Transition.get_incoming_action_for_state: is there a callable
get_incoming_action_for_state(t, s) == s \in t.incoming_actions

\* An OUTGOING phase that goes on whatever the outgoing action did
outgoing_success_Always(t, cbs, b) == TRUE

\* OUTGOING: the outcome of the outgoing action.  Without a registry it is
\* what transition.action returns (None is falsy), False if it raises
outgoing_success(t, cbs, b) ==
    IF cbs # << >> THEN execute_outgoing(cbs[1], t.id, b)
    ELSE IF t.action # "None" THEN b = "ReturnsTrue"
    ELSE TRUE

\* OUTGOING: did the inline action raise (its handler records the failure)
outgoing_raised(t, cbs, b) ==
    cbs = << >> /\ t.action # "None" /\ b = "Raises"

\* OUTGOING: is there an outgoing action to invoke
has_outgoing_action(t, cbs) ==
    IF cbs # << >> THEN t.id \in cbs[1].outgoing_callbacks ELSE t.action # "None"

\* INCOMING: the outcome for one activated state.  Without a registry only
\* an exception of the state's incoming action is a failure
incoming_success(t, cbs, s, b) ==
    IF cbs # << >> THEN execute_incoming(cbs[1], t.id, s, b)
    ELSE IF get_incoming_action_for_state(t, s) THEN b # "Raises"
    ELSE TRUE

\* INCOMING: is there an incoming action to invoke for the state
has_incoming_action(t, cbs, s) ==
    IF cbs # << >> THEN <<t.id, s>> \in cbs[1].incoming_callbacks
    ELSE get_incoming_action_for_state(t, s)

\* result.phase_results.append(...)
AppendPhase(r, phase, success, data) ==
    [r EXCEPT !.phase_results = Append(@, PhaseResult(phase, success, data))]

NoData == << >>

\* OUTGOING failed, recorded without looking at the last entry
AppendOutgoingFailure_Always(r) ==
    AppendPhase(r, "OUTGOING", FALSE, NoData)

\* OUTGOING failed: the failure is recorded unless the handler of a raising
\* action has already recorded it
AppendOutgoingFailure(r) ==
    IF r.phase_results = << >> \/ r.phase_results[Len(r.phase_results)].phase # "OUTGOING"
    THEN AppendPhase(r, "OUTGOING", FALSE, NoData)
    ELSE r

\* An INCOMING loop that stops at the first failure
RemainingIncoming_StopAtFailure(activated, results, failed) ==
    IF failed # {} THEN {} ELSE activated \ DOMAIN results

\* The states the INCOMING loop has still to visit
RemainingIncoming(activated, results, failed) == activated \ DOMAIN results

----------------------------------------------------------------------------
(* The inputs of the executor *)

\* Most states the caller has active at once
MaxActive == 2

ActiveSets == {S \in SUBSET StateIds : Cardinality(S) <= MaxActive}

\* The states that may have been built with blocking=True
BlockingChoices == SUBSET {"b", "c"}

\* TransitionExecutor.__init__ arguments: the policy, and the threshold in
\* percent (0.8 is the default)
ExecutorConfigs ==
    { <<"strict", 80>>, <<"lenient", 80>>,
      <<"threshold", 50>>, <<"threshold", 66>>, <<"threshold", 70>> }

\* The callables a caller supplies: an outgoing action or none, and the
\* states it gives an incoming action
SuppliedChoices ==
    { [action |-> FALSE, incoming |-> {}],
      [action |-> TRUE, incoming |-> StateIds],
      [action |-> TRUE, incoming |-> {"b"}],
      [action |-> FALSE, incoming |-> {"c", "d"}] }

\* The callables supplied inline, on the transition
WithInline(t, sup) ==
    [t EXCEPT !.action = IF sup.action THEN "callable" ELSE "None",
              !.incoming_actions = sup.incoming]

\* The callables supplied through a registry
Registry(t, sup) ==
    TransitionCallbacks(IF sup.action THEN {t.id} ELSE {},
                        {<<t.id, s>> : s \in sup.incoming})

\* The transitions execute is given: built by the constructor, and possibly
\* given a stays_visible attribute afterwards
ExecTransitions ==
    {[t EXCEPT !.stays_visible = sv] : t \in ExecPool, sv \in StaysVisibleAttr}

----------------------------------------------------------------------------
(* TransitionExecutor.execute, phase by phase *)

\* execute is called: the result and the locals are initialised (lines 89-99)
Execute(t, cbs) ==
    /\ ex_pc = "idle"
    /\ ex_pc' = "validate"
    /\ transition' = t /\ callbacks' = cbs
    /\ result' = TransitionResult(FALSE, << >>, {}, {}, "None")
    /\ successfully_activated' = {} /\ failed_incoming' = {}
    /\ incoming_results' = << >>
    /\ outgoing_calls' = 0
    /\ incoming_calls' = [s \in StateIds |-> 0]
    /\ last_call' = NoCall
    /\ query' = NoQuery
    /\ UNCHANGED <<active_states, blocking, success_policy, success_threshold>>
    /\ UNCHANGED pf_vars
    /\ UNCHANGED first_blocking
    /\ UNCHANGED mg_vars
    /\ reliability_tracker = "None" \/ TotalCalls < MaxCalls
    /\ execute_calls' = IF reliability_tracker = "None" THEN execute_calls
                        ELSE [execute_calls EXCEPT ![t.id] = @ + 1]
    /\ UNCHANGED sg_vars
    /\ UNCHANGED <<reliability_tracker, stats, cost_multiplier_on_failure,
                   min_cost_multiplier, max_cost_multiplier, cost_query>>

\* PHASE 1 VALIDATE fails: the failure is recorded and execute returns
ValidateReject ==
    /\ ex_pc = "validate"
    /\ \E order \in IterationOrders(active_states, blocking, first_blocking) :
          ~(can_execute(transition, active_states, order, blocking) /\ validate_groups(transition))
    /\ result' = AppendPhase(result, "VALIDATE", FALSE, NoData)
    /\ ex_pc' = "done"
    /\ UNCHANGED <<active_states, blocking, success_policy, success_threshold,
                   transition, callbacks, successfully_activated, failed_incoming,
                   incoming_results, outgoing_calls, incoming_calls, query>>
    /\ UNCHANGED pf_vars
    /\ UNCHANGED first_blocking
    /\ UNCHANGED mg_vars
    /\ stats' = track(reliability_tracker, stats, transition.id, FALSE)
    /\ UNCHANGED sg_vars
    /\ UNCHANGED <<reliability_tracker, cost_multiplier_on_failure,
                   min_cost_multiplier, max_cost_multiplier, execute_calls, cost_query>>
    /\ UNCHANGED last_call

\* PHASE 1 VALIDATE passes
ValidatePass ==
    /\ ex_pc = "validate"
    /\ \E order \in IterationOrders(active_states, blocking, first_blocking) :
          can_execute(transition, active_states, order, blocking) /\ validate_groups(transition)
    /\ result' = AppendPhase(result, "VALIDATE", TRUE, NoData)
    /\ ex_pc' = "outgoing"
    /\ UNCHANGED <<active_states, blocking, success_policy, success_threshold,
                   transition, callbacks, successfully_activated, failed_incoming,
                   incoming_results, outgoing_calls, incoming_calls, query>>
    /\ UNCHANGED pf_vars
    /\ UNCHANGED first_blocking
    /\ UNCHANGED mg_vars
    /\ UNCHANGED sg_vars
    /\ UNCHANGED rt_vars
    /\ UNCHANGED last_call

\* PHASE 2 OUTGOING fails: recorded once, and execute returns
OutgoingFail ==
    /\ ex_pc = "outgoing"
    /\ \E b \in Behaviours :
          /\ ~outgoing_success(transition, callbacks, b)
          /\ result' = AppendOutgoingFailure(
                          IF outgoing_raised(transition, callbacks, b)
                          THEN AppendPhase(result, "OUTGOING", FALSE, NoData)
                          ELSE result)
          /\ last_call' = [who |-> "outgoing", behaviour |-> b]
    /\ outgoing_calls' = outgoing_calls +
                            (IF has_outgoing_action(transition, callbacks) THEN 1 ELSE 0)
    /\ ex_pc' = "done"
    /\ UNCHANGED <<active_states, blocking, success_policy, success_threshold,
                   transition, callbacks, successfully_activated, failed_incoming,
                   incoming_results, incoming_calls, query>>
    /\ UNCHANGED pf_vars
    /\ UNCHANGED first_blocking
    /\ UNCHANGED mg_vars
    /\ stats' = track(reliability_tracker, stats, transition.id, FALSE)
    /\ UNCHANGED sg_vars
    /\ UNCHANGED <<reliability_tracker, cost_multiplier_on_failure,
                   min_cost_multiplier, max_cost_multiplier, execute_calls, cost_query>>

\* PHASE 2 OUTGOING succeeds
OutgoingPass ==
    /\ ex_pc = "outgoing"
    /\ \E b \in Behaviours :
          /\ outgoing_success(transition, callbacks, b)
          /\ last_call' = IF has_outgoing_action(transition, callbacks)
                          THEN [who |-> "outgoing", behaviour |-> b]
                          ELSE last_call
    /\ result' = AppendPhase(result, "OUTGOING", TRUE, NoData)
    /\ outgoing_calls' = outgoing_calls +
                            (IF has_outgoing_action(transition, callbacks) THEN 1 ELSE 0)
    /\ ex_pc' = "activate"
    /\ UNCHANGED <<active_states, blocking, success_policy, success_threshold,
                   transition, callbacks, successfully_activated, failed_incoming,
                   incoming_results, incoming_calls, query>>
    /\ UNCHANGED pf_vars
    /\ UNCHANGED first_blocking
    /\ UNCHANGED mg_vars
    /\ UNCHANGED sg_vars
    /\ UNCHANGED rt_vars

\* PHASE 3 ACTIVATE: every state to activate joins successfully_activated
Activate ==
    /\ ex_pc = "activate"
    /\ successfully_activated' =
          successfully_activated \cup get_all_states_to_activate(transition)
    /\ result' = AppendPhase(result, "ACTIVATE", TRUE,
                             [activated |-> successfully_activated'])
    /\ incoming_results' = << >>
    /\ ex_pc' = "incoming"
    /\ UNCHANGED <<active_states, blocking, success_policy, success_threshold,
                   transition, callbacks, failed_incoming,
                   outgoing_calls, incoming_calls, query>>
    /\ UNCHANGED pf_vars
    /\ UNCHANGED first_blocking
    /\ UNCHANGED mg_vars
    /\ UNCHANGED sg_vars
    /\ UNCHANGED rt_vars
    /\ UNCHANGED last_call

\* PHASE 4 INCOMING, one pass of the loop over successfully_activated
IncomingStep ==
    /\ ex_pc = "incoming"
    /\ \E s \in RemainingIncoming(successfully_activated, incoming_results, failed_incoming) :
       \E b \in Behaviours :
          LET ok == incoming_success(transition, callbacks, s, b)
          IN  /\ incoming_results' = DictSet(incoming_results, s, ok)
              /\ failed_incoming' = IF ok THEN failed_incoming
                                    ELSE failed_incoming \cup {s}
              /\ incoming_calls' =
                    [incoming_calls EXCEPT ![s] =
                        @ + (IF has_incoming_action(transition, callbacks, s) THEN 1 ELSE 0)]
              /\ last_call' = IF has_incoming_action(transition, callbacks, s)
                              THEN [who |-> s, behaviour |-> b]
                              ELSE last_call
    /\ UNCHANGED <<active_states, blocking, success_policy, success_threshold, ex_pc,
                   transition, callbacks, result, successfully_activated,
                   outgoing_calls, query>>
    /\ UNCHANGED pf_vars
    /\ UNCHANGED first_blocking
    /\ UNCHANGED mg_vars
    /\ UNCHANGED sg_vars
    /\ UNCHANGED rt_vars

\* The INCOMING entry of an execute that fills the result's delta as soon as
\* the incoming actions have run
IncomingPhase_WithDelta(r, ok) ==
    [r EXCEPT !.phase_results =
                  Append(@, PhaseResult("INCOMING", ok,
                                        [successful |-> successfully_activated \ failed_incoming,
                                         failed |-> failed_incoming])),
              !.activated_states = successfully_activated]

\* The INCOMING phase result (lines 232-249)
IncomingPhase(r, ok) ==
    AppendPhase(r, "INCOMING", ok,
                [successful |-> successfully_activated \ failed_incoming,
                 failed |-> failed_incoming])

\* The loop is over and the policy rejects the outcome: execute returns
IncomingReject ==
    /\ ex_pc = "incoming"
    /\ RemainingIncoming(successfully_activated, incoming_results, failed_incoming) = {}
    /\ ~_evaluate_incoming_success(success_policy, success_threshold,
                                   successfully_activated, failed_incoming)
    /\ result' = IncomingPhase(result, FALSE)
    /\ ex_pc' = "done"
    /\ UNCHANGED <<active_states, blocking, success_policy, success_threshold,
                   transition, callbacks, successfully_activated, failed_incoming,
                   incoming_results, outgoing_calls, incoming_calls, query>>
    /\ UNCHANGED pf_vars
    /\ UNCHANGED first_blocking
    /\ UNCHANGED mg_vars
    /\ stats' = track(reliability_tracker, stats, transition.id, FALSE)
    /\ UNCHANGED sg_vars
    /\ UNCHANGED <<reliability_tracker, cost_multiplier_on_failure,
                   min_cost_multiplier, max_cost_multiplier, execute_calls, cost_query>>
    /\ UNCHANGED last_call

\* The loop is over and the policy accepts the outcome
IncomingAccept ==
    /\ ex_pc = "incoming"
    /\ RemainingIncoming(successfully_activated, incoming_results, failed_incoming) = {}
    /\ _evaluate_incoming_success(success_policy, success_threshold,
                                  successfully_activated, failed_incoming)
    /\ result' = IncomingPhase(result, TRUE)
    /\ ex_pc' = "exit"
    /\ UNCHANGED <<active_states, blocking, success_policy, success_threshold,
                   transition, callbacks, successfully_activated, failed_incoming,
                   incoming_results, outgoing_calls, incoming_calls, query>>
    /\ UNCHANGED pf_vars
    /\ UNCHANGED first_blocking
    /\ UNCHANGED mg_vars
    /\ UNCHANGED sg_vars
    /\ UNCHANGED rt_vars
    /\ UNCHANGED last_call

\* PHASE 5 EXIT: the states to exit are recorded
Exit ==
    /\ ex_pc = "exit"
    /\ result' = AppendPhase(result, "EXIT", TRUE,
                             [deactivated |-> get_all_states_to_exit(transition)])
    /\ ex_pc' = "visibility"
    /\ UNCHANGED <<active_states, blocking, success_policy, success_threshold,
                   transition, callbacks, successfully_activated, failed_incoming,
                   incoming_results, outgoing_calls, incoming_calls, query>>
    /\ UNCHANGED pf_vars
    /\ UNCHANGED first_blocking
    /\ UNCHANGED mg_vars
    /\ UNCHANGED sg_vars
    /\ UNCHANGED rt_vars
    /\ UNCHANGED last_call

\* the except clause of execute (lines 318-327): the exception is stored in
\* result.error and a failed CLEANUP entry is appended; success stays False
HandleException_ErrorOnly(r, e) == [r EXCEPT !.error = e]
HandleException(r, e) == AppendPhase([r EXCEPT !.error = e], "CLEANUP", FALSE, NoData)

\* PHASE 6 VISIBILITY raises: the handler (lines 318-327) stores the error,
\* records a failed CLEANUP, and execute returns
VisibilityRaises ==
    /\ ex_pc = "visibility"
    /\ LET v == _update_visibility(transition, active_states, successfully_activated)
       IN  /\ v.raised # "None"
           /\ result' = HandleException(result, v.raised)
    /\ ex_pc' = "done"
    /\ UNCHANGED <<active_states, blocking, success_policy, success_threshold,
                   transition, callbacks, successfully_activated, failed_incoming,
                   incoming_results, outgoing_calls, incoming_calls, query>>
    /\ UNCHANGED pf_vars
    /\ UNCHANGED first_blocking
    /\ UNCHANGED mg_vars
    /\ stats' = track(reliability_tracker, stats, transition.id, FALSE)
    /\ UNCHANGED sg_vars
    /\ UNCHANGED <<reliability_tracker, cost_multiplier_on_failure,
                   min_cost_multiplier, max_cost_multiplier, execute_calls, cost_query>>
    /\ UNCHANGED last_call

\* PHASE 6 VISIBILITY
VisibilityPass ==
    /\ ex_pc = "visibility"
    /\ LET v == _update_visibility(transition, active_states, successfully_activated)
       IN  /\ v.raised = "None"
           /\ result' = AppendPhase(result, "VISIBILITY", TRUE, v)
    /\ ex_pc' = "cleanup"
    /\ UNCHANGED <<active_states, blocking, success_policy, success_threshold,
                   transition, callbacks, successfully_activated, failed_incoming,
                   incoming_results, outgoing_calls, incoming_calls, query>>
    /\ UNCHANGED pf_vars
    /\ UNCHANGED first_blocking
    /\ UNCHANGED mg_vars
    /\ UNCHANGED sg_vars
    /\ UNCHANGED rt_vars
    /\ UNCHANGED last_call

\* PHASE 7 CLEANUP and the final result data (lines 290-303)
Cleanup ==
    /\ ex_pc = "cleanup"
    /\ result' = [AppendPhase(result, "CLEANUP", TRUE, NoData) EXCEPT
                     !.success = TRUE,
                     !.activated_states = successfully_activated,
                     !.deactivated_states = get_all_states_to_exit(transition)]
    /\ ex_pc' = "done"
    /\ UNCHANGED <<active_states, blocking, success_policy, success_threshold,
                   transition, callbacks, successfully_activated, failed_incoming,
                   incoming_results, outgoing_calls, incoming_calls, query>>
    /\ UNCHANGED pf_vars
    /\ UNCHANGED first_blocking
    /\ UNCHANGED mg_vars
    /\ stats' = track(reliability_tracker, stats, transition.id, TRUE)
    /\ UNCHANGED sg_vars
    /\ UNCHANGED <<reliability_tracker, cost_multiplier_on_failure,
                   min_cost_multiplier, max_cost_multiplier, execute_calls, cost_query>>
    /\ UNCHANGED last_call

\* execute has returned; the caller goes on and the call's frame is gone
Return ==
    /\ ex_pc = "done"
    /\ ex_pc' = "idle"
    /\ transition' = << >> /\ callbacks' = << >>
    /\ result' = << >>
    /\ successfully_activated' = {} /\ failed_incoming' = {}
    /\ incoming_results' = << >>
    /\ outgoing_calls' = 0
    /\ incoming_calls' = [s \in StateIds |-> 0]
    /\ last_call' = NoCall
    /\ UNCHANGED <<active_states, blocking, success_policy, success_threshold, query>>
    /\ UNCHANGED pf_vars
    /\ UNCHANGED first_blocking
    /\ UNCHANGED mg_vars
    /\ UNCHANGED sg_vars
    /\ UNCHANGED rt_vars

\* The caller asks can_execute
CanExecute(t) ==
    /\ ex_pc = "idle"
    /\ \E order \in IterationOrders(active_states, blocking, first_blocking) :
          query' = [op |-> "can_execute", id |-> t.id,
                    returned |-> can_execute(t, active_states, order, blocking)]
    /\ UNCHANGED <<active_states, blocking, success_policy, success_threshold, ex_pc,
                   transition, callbacks, result, successfully_activated,
                   failed_incoming, incoming_results, outgoing_calls, incoming_calls>>
    /\ UNCHANGED pf_vars
    /\ UNCHANGED first_blocking
    /\ UNCHANGED mg_vars
    /\ UNCHANGED sg_vars
    /\ UNCHANGED rt_vars
    /\ UNCHANGED last_call

\* The caller asks get_result_states; its own set object is what the call
\* leaves in it
GetResultStates(t) ==
    /\ ex_pc = "idle"
    /\ LET r == get_result_states(t, active_states)
       IN  /\ query' = [op |-> "get_result_states", id |-> t.id, returned |-> r.returned]
           /\ active_states' = r.argument
    /\ UNCHANGED <<blocking, success_policy, success_threshold, ex_pc,
                   transition, callbacks, result, successfully_activated,
                   failed_incoming, incoming_results, outgoing_calls, incoming_calls>>
    /\ UNCHANGED pf_vars
    /\ UNCHANGED first_blocking
    /\ UNCHANGED mg_vars
    /\ UNCHANGED sg_vars
    /\ UNCHANGED rt_vars
    /\ UNCHANGED last_call

\* TransitionExecutor.__init__, the states as built, and the caller's set
Init ==
    /\ GroupsOff
    /\ TrackerOff
    /\ active_states \in ActiveSets
    /\ blocking \in BlockingChoices
    /\ first_blocking \in FirstBlockingChoices(active_states, blocking)
    /\ \E cfg \in ExecutorConfigs :
          success_policy = cfg[1] /\ success_threshold = cfg[2]
    /\ ExecutorIdle
    /\ query = NoQuery
    /\ ManagerOff
    /\ transitions = << >> /\ strategy = "bfs"
    /\ current_states = {} /\ target_states = {}
    /\ pf_pc = "off"
    /\ nodes = << >> /\ queue = << >> /\ heap = {}
    /\ visited = {} /\ best_costs = << >> /\ path = << >>

Next ==
    \/ \E t \in ExecTransitions, sup \in SuppliedChoices :
          Execute(WithInline(t, sup), << >>)
    \/ \E t \in ExecTransitions, sup \in SuppliedChoices :
          Execute(t, <<Registry(t, sup)>>)
    \/ ValidateReject
    \/ ValidatePass
    \/ OutgoingFail
    \/ OutgoingPass
    \/ Activate
    \/ IncomingStep
    \/ IncomingReject
    \/ IncomingAccept
    \/ Exit
    \/ VisibilityRaises
    \/ VisibilityPass
    \/ Cleanup
    \/ Return
    \/ \E t \in ExecPool : CanExecute(t)
    \/ \E t \in ExecPool : GetResultStates(t)

Spec == Init /\ [][Next]_vars

----------------------------------------------------------------------------
(* Claims about TransitionExecutor.execute *)

\* The phases a returned result records, in order
RecordedPhases == [i \in 1..Len(result.phase_results) |-> result.phase_results[i].phase]

\* execute has returned and the result records a successful INCOMING, so
\* validation passed, the outgoing action succeeded and the policy accepted
AcceptedRun ==
    /\ ex_pc = "done"
    /\ \E i \in 1..Len(result.phase_results) :
          /\ result.phase_results[i].phase = "INCOMING"
          /\ result.phase_results[i].success

\* C7: when a transition passes validation, its outgoing action succeeds and
\* the policy accepts the incoming outcomes, execute returns success=True with
\* exactly the seven phase results VALIDATE, OUTGOING, ACTIVATE, INCOMING,
\* EXIT, VISIBILITY, CLEANUP in this order, each marked successful.
C7_SevenSuccessfulPhases ==
    AcceptedRun =>
        /\ result.success
        /\ RecordedPhases = TransitionPhase
        /\ \A i \in 1..Len(result.phase_results) : result.phase_results[i].success

\* The recorded phases are the first k of the canonical order
IsPrefix(phases, k) ==
    /\ Len(phases) >= k
    /\ \A i \in 1..k : phases[i] = TransitionPhase[i]

\* C8: in every result execute returns, the recorded phases contain no
\* duplicate and form a prefix of the canonical order, optionally followed by
\* one failed CLEANUP entry when an exception was captured; at most one
\* recorded phase is a failure and it is the last entry.
C8_PhasesArePrefix ==
    ex_pc = "done" =>
        LET ps == result.phase_results
            n == Len(ps)
        IN  /\ \A i, j \in 1..n : i # j => ps[i].phase # ps[j].phase
            /\ \/ IsPrefix(RecordedPhases, n)
               \/ /\ n >= 1 /\ n <= Len(TransitionPhase)
                  /\ IsPrefix(RecordedPhases, n - 1)
                  /\ ps[n].phase = "CLEANUP" /\ ~ps[n].success
                  /\ result.error # "None"
            /\ \A i \in 1..n : ~ps[i].success => i = n

\* C8 witness: execute returned after an inline outgoing action failed, the
\* failure being the second and last entry
C8_Witness ==
    /\ ex_pc = "done"
    /\ callbacks = << >> /\ transition.action = "callable"
    /\ outgoing_calls = 1
    /\ Len(result.phase_results) = 2
    /\ result.phase_results[2].phase = "OUTGOING"
    /\ ~result.phase_results[2].success

\* C9: execute, can_execute and get_result_states never change the
\* caller-supplied active-state set, whatever the transition and the outcome.
C9_CallerSetUntouched == [][active_states' = active_states]_vars

\* C9 witness: get_result_states returned a set that differs from the
\* caller's, which still holds what it held
C9_Witness ==
    /\ query.op = "get_result_states"
    /\ query.returned # active_states
    /\ \E t \in ExecPool :
          /\ t.id = query.id
          /\ query.returned = (active_states \ get_all_states_to_exit(t))
                                 \cup get_all_states_to_activate(t)

\* The INCOMING phase has been reached and its loop is over
IncomingRecorded ==
    /\ ex_pc \in {"exit", "visibility", "cleanup", "done"}
    /\ \E i \in 1..Len(result.phase_results) : result.phase_results[i].phase = "INCOMING"

\* C10: whenever the INCOMING phase is reached, the incoming action of every
\* state of the resolved activate-set is invoked exactly once and no incoming
\* action of any other state is invoked, whether or not other states'
\* incoming actions failed and whatever the success policy.
C10_EveryIncomingOnce ==
    IncomingRecorded =>
        /\ DOMAIN incoming_results = get_all_states_to_activate(transition)
        /\ \A s \in StateIds :
              incoming_calls[s] =
                 IF /\ s \in get_all_states_to_activate(transition)
                    /\ has_incoming_action(transition, callbacks, s)
                 THEN 1 ELSE 0

\* C10 witness: several states were activated, each has an incoming action,
\* some failed and some did not, and every one of them was invoked once
C10_Witness ==
    /\ IncomingRecorded
    /\ Cardinality(successfully_activated) >= 2
    /\ failed_incoming # {} /\ failed_incoming # successfully_activated
    /\ \A s \in successfully_activated : incoming_calls[s] = 1
    /\ \E s \in StateIds \ successfully_activated :
          has_incoming_action(transition, callbacks, s)

\* What the policy rule says for n activated states of which f failed
PolicyAccepts(n, f) ==
    IF n = 0 THEN TRUE
    ELSE IF success_policy = "strict" THEN f = 0
    ELSE IF success_policy = "lenient" THEN TRUE
    ELSE (n - f) * 100 >= success_threshold * n

\* The success flag of the recorded INCOMING entry
IncomingEntrySuccess ==
    LET i == CHOOSE i \in 1..Len(result.phase_results) :
                 result.phase_results[i].phase = "INCOMING"
    IN  result.phase_results[i].success

\* The INCOMING entry alone follows the policy rule
IncomingFollowsPolicy ==
    IncomingRecorded =>
        IncomingEntrySuccess = PolicyAccepts(Cardinality(successfully_activated),
                                             Cardinality(failed_incoming))

\* C11: for n activated states of which f had a failing incoming action, the
\* INCOMING phase and the transition succeed iff f = 0 under STRICT, always
\* under LENIENT, iff (n - f)/n >= theta under THRESHOLD(theta), and always
\* when n = 0.
C11_PolicyDecidesSuccess ==
    (ex_pc = "done" /\ IncomingRecorded) =>
        LET accepted == PolicyAccepts(Cardinality(successfully_activated),
                                      Cardinality(failed_incoming))
        IN  /\ IncomingEntrySuccess = accepted
            /\ result.success = accepted

\* Some active blocking state has none of the transition's activated states
\* in its group
Vetoed(t, active) ==
    \E s \in active \cap blocking :
       \A n \in get_all_states_to_activate(t) :
          StateGroupOf(s) = "None" \/ StateGroupOf(n) # StateGroupOf(s)

\* C12: if some active state is blocking and no state of the transition's
\* resolved activate-set belongs to that state's group, can_execute returns
\* false and execute fails at VALIDATE, in whatever order the active states
\* are examined.
C12_BlockingVetoes ==
    /\ query.op = "can_execute" =>
          \A t \in ExecPool :
             (t.id = query.id /\ Vetoed(t, active_states)) => query.returned = FALSE
    /\ (ex_pc = "done" /\ Vetoed(transition, active_states)) =>
          /\ Len(result.phase_results) = 1
          /\ result.phase_results[1].phase = "VALIDATE"
          /\ ~result.phase_results[1].success

\* C13: blocking consistency: if a blocking state is active, no successful
\* execute activates a state whose id is in its blocks set, also when the
\* blocked state or another activated state shares the blocker's group.
C13_BlockedNeverActivated ==
    (ex_pc = "done" /\ result.success) =>
        \A sb \in active_states \cap blocking :
           get_blocked_states(sb) \cap result.activated_states = {}

\* Every group is fully inside the configuration or fully outside it
Atomic(S) ==
    \A g \in GroupIds : GroupStates[g] \subseteq S \/ GroupStates[g] \cap S = {}

\* C14: group atomicity is preserved by execution: from a configuration in
\* which every group is fully active or fully inactive, a successful execute
\* yields (activated states added, deactivated states removed) such a
\* configuration again, and a transition that would leave a group partially
\* active is rejected at VALIDATE.
C14_GroupAtomicity ==
    (ex_pc = "done" /\ Atomic(active_states)) =>
        /\ result.success =>
              Atomic((active_states \cup result.activated_states)
                        \ result.deactivated_states)
        /\ ~Atomic(ResultStates(transition, active_states)) =>
              /\ Len(result.phase_results) = 1
              /\ result.phase_results[1].phase = "VALIDATE"
              /\ ~result.phase_results[1].success

----------------------------------------------------------------------------
(* StateManager *)

\* Most entries of transition_history the model follows
MaxHistory == 1

\* The configurations a manager is built with
ManagerConfigs ==
    {StateManagerConfig(allow, rollback, policy) :
        allow \in BOOLEAN, rollback \in BOOLEAN, policy \in {"strict", "lenient"}}

\* self.transitions: built by add_transition through the constructor; the
\* caller may give the returned object a stays_visible attribute
ManagerTransitions ==
    {[t EXCEPT !.stays_visible = sv] :
        t \in {e \in ExecPool : e.id \in {"e1", "e2", "e4"}}, sv \in {"MISSING", "NONE"}}

\* The callbacks add_transition registers: none, or one for the transition
\* and one for every state
ManagerSupplied == {sup \in SuppliedChoices : sup.incoming \in {{}, StateIds}}

\* StateManager.activate_states: every blocking state among the new ones
\* clears the active set down to its own group (to nothing if it has none)
activate_states_KeepAll(active, states, is_blocking) == active \cup states

activate_states(active, states, is_blocking) ==
    LET kept == {a \in active :
                    \A s \in states \cap is_blocking :
                       StateGroupOf(s) # "None" /\ a \in GroupStates[StateGroupOf(s)]}
    IN  kept \cup states

\* StateManager.deactivate_states
deactivate_states(active, states) == active \ states

\* execute_transition committing the projection whatever execute returned
CommittedStates_Always(r, t, initial, active, cfg) ==
    ResultStates(t, initial)

\* execute_transition after execute has returned: success commits the
\* projection of the initial states, failure rolls back when configured
CommittedStates(r, t, initial, active, cfg) ==
    IF r.success THEN ResultStates(t, initial)
    ELSE IF cfg.auto_rollback_on_failure THEN initial
    ELSE active

\* The entry execute_transition appends to transition_history
HistoryEntry_AlwaysSuccess(t, r) ==
    [transition_id |-> t.id, success |-> TRUE,
     failed_phase |-> get_failed_phase(r),
     activated |-> Cardinality(r.activated_states),
     deactivated |-> Cardinality(r.deactivated_states),
     error |-> r.error]

HistoryEntry(t, r) ==
    [transition_id |-> t.id, success |-> r.success,
     failed_phase |-> get_failed_phase(r),
     activated |-> Cardinality(r.activated_states),
     deactivated |-> Cardinality(r.deactivated_states),
     error |-> r.error]

\* StateManager.activate_states is called
MgrActivateStates(S) ==
    /\ mg_pc = "idle"
    /\ active_states' = activate_states(active_states, S, blocking)
    /\ mg_returned' = "None"
    /\ UNCHANGED <<mg_pc, config, initial_states, transition_history>>
    /\ UNCHANGED <<blocking, success_policy, success_threshold, ex_pc,
                   transition, callbacks, result, successfully_activated,
                   failed_incoming, incoming_results, outgoing_calls,
                   incoming_calls, query>>
    /\ UNCHANGED pf_vars
    /\ UNCHANGED sg_vars
    /\ UNCHANGED rt_vars
    /\ first_blocking' \in FirstBlockingChoices(active_states', blocking)
    /\ UNCHANGED last_call

\* StateManager.deactivate_states is called
MgrDeactivateStates(S) ==
    /\ mg_pc = "idle"
    /\ active_states' = deactivate_states(active_states, S)
    /\ mg_returned' = "None"
    /\ UNCHANGED <<mg_pc, config, initial_states, transition_history>>
    /\ UNCHANGED <<blocking, success_policy, success_threshold, ex_pc,
                   transition, callbacks, result, successfully_activated,
                   failed_incoming, incoming_results, outgoing_calls,
                   incoming_calls, query>>
    /\ UNCHANGED pf_vars
    /\ UNCHANGED sg_vars
    /\ UNCHANGED rt_vars
    /\ first_blocking' \in FirstBlockingChoices(active_states', blocking)
    /\ UNCHANGED last_call

\* execute_transition raises InvalidTransitionError (lines 358-363)
MgrExecuteTransitionRaises(t) ==
    /\ mg_pc = "idle"
    /\ ~config.allow_invalid_transitions
    /\ \E order \in IterationOrders(active_states, blocking, first_blocking) :
          ~can_execute(t, active_states, order, blocking)
    /\ mg_returned' = "InvalidTransitionError"
    /\ UNCHANGED <<mg_pc, config, initial_states, transition_history>>
    /\ UNCHANGED ex_vars
    /\ UNCHANGED pf_vars
    /\ UNCHANGED sg_vars
    /\ UNCHANGED rt_vars

\* execute_transition passes its check, copies the active set and calls
\* execute with the manager's registry (lines 358-372)
MgrExecuteTransition(t, cbs) ==
    /\ mg_pc = "idle"
    /\ Len(transition_history) < MaxHistory
    /\ \/ config.allow_invalid_transitions
       \/ \E order \in IterationOrders(active_states, blocking, first_blocking) :
             can_execute(t, active_states, order, blocking)
    /\ initial_states' = active_states
    /\ mg_pc' = "executing"
    /\ ex_pc' = "validate"
    /\ transition' = t /\ callbacks' = cbs
    /\ result' = TransitionResult(FALSE, << >>, {}, {}, "None")
    /\ successfully_activated' = {} /\ failed_incoming' = {}
    /\ incoming_results' = << >>
    /\ outgoing_calls' = 0
    /\ incoming_calls' = [s \in StateIds |-> 0]
    /\ last_call' = NoCall
    /\ mg_returned' = "None"
    /\ UNCHANGED <<active_states, blocking, success_policy, success_threshold, query>>
    /\ UNCHANGED <<config, transition_history>>
    /\ UNCHANGED pf_vars
    /\ UNCHANGED sg_vars
    /\ UNCHANGED rt_vars
    /\ UNCHANGED first_blocking

\* execute has returned: execute_transition commits or rolls back, appends
\* to the history and returns result.success (lines 374-415); its locals
\* are gone
MgrFinish ==
    /\ mg_pc = "executing" /\ ex_pc = "done"
    /\ active_states' = CommittedStates(result, transition, initial_states,
                                        active_states, config)
    /\ transition_history' = Append(transition_history, HistoryEntry(transition, result))
    /\ mg_returned' = IF result.success THEN "True" ELSE "False"
    /\ mg_pc' = "idle"
    /\ ex_pc' = "idle"
    /\ transition' = << >> /\ callbacks' = << >>
    /\ result' = << >>
    /\ successfully_activated' = {} /\ failed_incoming' = {}
    /\ incoming_results' = << >>
    /\ outgoing_calls' = 0
    /\ incoming_calls' = [s \in StateIds |-> 0]
    /\ last_call' = NoCall
    /\ initial_states' = {}
    /\ UNCHANGED <<blocking, success_policy, success_threshold, query>>
    /\ UNCHANGED config
    /\ UNCHANGED pf_vars
    /\ UNCHANGED sg_vars
    /\ UNCHANGED rt_vars
    /\ IF ~result.success /\ ~config.auto_rollback_on_failure
       THEN UNCHANGED first_blocking
       ELSE first_blocking' \in FirstBlockingChoices(active_states', blocking)

\* StateManager.__init__ and the states as added
ManagerInit ==
    /\ GroupsOff
    /\ TrackerOff
    /\ active_states = {}
    /\ blocking \in BlockingChoices
    /\ first_blocking = "None"
    /\ success_policy = "strict" /\ success_threshold = 80
    /\ ExecutorIdle
    /\ query = NoQuery
    /\ mg_pc = "idle"
    /\ config \in ManagerConfigs
    /\ initial_states = {}
    /\ transition_history = << >>
    /\ mg_returned = "None"
    /\ transitions = << >> /\ strategy = "bfs"
    /\ current_states = {} /\ target_states = {}
    /\ pf_pc = "off"
    /\ nodes = << >> /\ queue = << >> /\ heap = {}
    /\ visited = {} /\ best_costs = << >> /\ path = << >>

ManagerNext ==
    \/ \E S \in ActiveSets \ {{}} : MgrActivateStates(S)
    \/ \E s \in StateIds : MgrDeactivateStates({s})
    \/ \E t \in ManagerTransitions : MgrExecuteTransitionRaises(t)
    \/ \E t \in ManagerTransitions, sup \in ManagerSupplied :
          MgrExecuteTransition(t, <<Registry(t, sup)>>)
    \/ ValidateReject
    \/ ValidatePass
    \/ OutgoingFail
    \/ OutgoingPass
    \/ Activate
    \/ IncomingStep
    \/ IncomingReject
    \/ IncomingAccept
    \/ Exit
    \/ VisibilityRaises
    \/ VisibilityPass
    \/ Cleanup
    \/ MgrFinish

ManagerSpec == ManagerInit /\ [][ManagerNext]_vars

----------------------------------------------------------------------------
(* Claims about StateManager *)

\* C15: rollback safety: an execute_transition call that does not succeed
\* (it returns False or raises InvalidTransitionError) leaves the manager's
\* active-state set exactly as it was before the call.
C15_RollbackSafety ==
    [][ /\ (mg_pc = "idle" /\ mg_pc' = "executing") =>
              (initial_states' = active_states /\ active_states' = active_states)
        /\ (mg_pc = "executing" /\ mg_pc' = "executing") =>
              (initial_states' = initial_states /\ active_states' = active_states)
        /\ (mg_pc = "executing" /\ mg_pc' = "idle" /\ mg_returned' # "True") =>
              active_states' = initial_states
        /\ (mg_pc = "idle" /\ mg_pc' = "idle" /\ mg_returned' = "InvalidTransitionError") =>
              active_states' = active_states ]_vars

\* C15 witness: execute_transition returned False after its transition had
\* been through ACTIVATE, and the active set is not what a commit would
\* have made it
C15_Witness ==
    /\ mg_pc = "idle" /\ mg_returned = "False"
    /\ Len(transition_history) = 1
    /\ transition_history[1].failed_phase = "INCOMING"
    /\ \E t \in ManagerTransitions :
          /\ t.id = transition_history[1].transition_id
          /\ ResultStates(t, active_states) # active_states

----------------------------------------------------------------------------
(* Claims about the actions execute invokes *)

\* The states whose incoming action this execute has invoked
IncomingInvoked == {s \in StateIds : incoming_calls[s] > 0}

\* The outgoing action was invoked last and returned False or raised
OutgoingJustFailed ==
    /\ last_call.who = "outgoing"
    /\ last_call.behaviour \in {"ReturnsFalse", "Raises"}

\* C16: within one execute, if VALIDATE fails neither the outgoing action nor
\* any incoming action is invoked; if the outgoing action returns false or
\* raises, no incoming action is invoked; otherwise the outgoing action is
\* invoked exactly once and before every incoming action.
C16_ActionOrdering ==
    ex_pc # "idle" =>
        LET ps == result.phase_results
        IN  /\ (ps # << >> /\ ~ps[1].success) =>
                  (outgoing_calls = 0 /\ IncomingInvoked = {})
            /\ OutgoingJustFailed => (ex_pc = "done" /\ IncomingInvoked = {})
            /\ (Len(ps) >= 2 /\ ~ps[2].success) => IncomingInvoked = {}
            /\ IncomingInvoked # {} =>
                  /\ Len(ps) >= 2 /\ ps[2].phase = "OUTGOING" /\ ps[2].success
                  /\ has_outgoing_action(transition, callbacks) => outgoing_calls = 1
            /\ outgoing_calls <= 1
            /\ (has_outgoing_action(transition, callbacks) /\ Len(ps) >= 2) =>
                  outgoing_calls = 1

\* C16 witness: the outgoing action was invoked once and incoming actions
\* were invoked after it
C16_Witness ==
    /\ ex_pc = "done"
    /\ outgoing_calls = 1
    /\ Cardinality(IncomingInvoked) >= 2
    /\ last_call.who \in IncomingInvoked

\* C17: an outgoing or incoming action that returns false or raises is
\* recorded as a failure of that action, whether it is supplied inline on the
\* Transition or through the callback registry: such an outgoing action fails
\* OUTGOING, and such an incoming action puts its state in the failed set.
C17_FailuresRecordedAlike ==
    (ex_pc # "idle" /\ last_call.behaviour \in {"ReturnsFalse", "Raises"}) =>
        LET ps == result.phase_results
        IN  /\ last_call.who = "outgoing" =>
                  /\ Len(ps) = 2
                  /\ ps[2].phase = "OUTGOING" /\ ~ps[2].success
            /\ last_call.who \in StateIds => last_call.who \in failed_incoming

\* C18: execute never raises: when a phase raises an unexpected exception
\* (here _update_visibility, after EXIT was recorded), execute still returns a
\* result with success = False, the exception stored in error, and a failed
\* CLEANUP phase result as its last entry; without an exception error is unset.
PhaseRaised ==
    /\ transition # << >>
    /\ \E i \in 1..Len(result.phase_results) : result.phase_results[i].phase = "EXIT"
    /\ _update_visibility(transition, active_states, successfully_activated).raised # "None"

C18_ExecuteNeverRaises ==
    ex_pc = "done" =>
        LET ps == result.phase_results
        IN  /\ PhaseRaised <=> result.error # "None"
            /\ result.error # "None" =>
                  /\ ~result.success
                  /\ Len(ps) > 0
                  /\ ps[Len(ps)].phase = "CLEANUP"
                  /\ ~ps[Len(ps)].success
                  /\ result.error =
                       _update_visibility(transition, active_states,
                                          successfully_activated).raised

C18_Witness ==
    /\ ex_pc = "done"
    /\ PhaseRaised
    /\ result.error = "AttributeError"
    /\ Len(result.phase_results) = 6

\* C19: the VISIBILITY phase never fails and reports show/hide sets over
\* exactly the surviving source states, from_states minus the resolved
\* exit-set: show directive -> states_to_show is that set and states_to_hide
\* is empty, hide directive -> the reverse, inherit -> both empty; an active
\* state outside from_states appears in neither set.
SurvivingSources(t) == t.from_states \ get_all_states_to_exit(t)

C19_VisibilityOverSources ==
    (ex_pc \in {"cleanup", "done"} /\ Len(result.phase_results) >= 6) =>
        LET v == result.phase_results[6]
        IN  /\ v.phase = "VISIBILITY" /\ v.success
            /\ v.data.states_to_show =
                 (IF transition.stays_visible = "TRUE"
                  THEN SurvivingSources(transition) ELSE {})
            /\ v.data.states_to_hide =
                 (IF transition.stays_visible = "FALSE"
                  THEN SurvivingSources(transition) ELSE {})

\* C20: for every transition t and configuration A the pathfinder's
\* _apply_transition and the executor's get_result_states return the same
\* set, (A minus resolved exit-set) union resolved activate-set, so a state
\* in both the exit-set and the activate-set is active in the result, and
\* the call leaves A unchanged.
Queried(id) == CHOOSE t \in ExecTransitions : t.id = id

C20_SameSuccessor ==
    [][ (query'.op = "get_result_states"
         /\ (query.op # "get_result_states" \/ query' # query)) =>
           LET t == Queried(query'.id)
               A == active_states
           IN  /\ query'.returned = _apply_transition(A, t)
               /\ query'.returned =
                    (A \ get_all_states_to_exit(t)) \cup get_all_states_to_activate(t)
               /\ \A s \in get_all_states_to_exit(t) \cap get_all_states_to_activate(t) :
                     s \in query'.returned
               /\ active_states' = A ]_vars

C20_Witness ==
    /\ query.op = "get_result_states"
    /\ query.id = "e6"
    /\ active_states = {"a", "c"}
    /\ "c" \in get_all_states_to_exit(Queried("e6"))
    /\ query.returned = {"c", "d"}

\* C21: on every successful execute, result.activated_states is
\* activate_states united with all members of every group in
\* activate_groups, and result.deactivated_states is exit_states united with
\* all members of every group in exit_groups.
GroupMembers(gs) == UNION {GroupStates[g] : g \in gs}

C21_GroupsWhole ==
    (ex_pc = "done" /\ result.success) =>
        /\ result.activated_states =
             transition.activate_states \cup GroupMembers(transition.activate_groups)
        /\ result.deactivated_states =
             transition.exit_states \cup GroupMembers(transition.exit_groups)

C21_Witness ==
    /\ ex_pc = "done"
    /\ result.success
    /\ transition.activate_groups = {"g1"}
    /\ result.activated_states = {"b", "c", "d"}

\* C22: can_execute is exactly the VALIDATE check: execute fails at VALIDATE
\* iff can_execute returns false for the same transition and active set;
\* can_execute implies can_fire (from_states empty or intersecting the active
\* set); with no blocking state active can_execute equals can_fire, so a
\* wildcard transition is then executable from every configuration.
can_fire(t, active) == t.from_states = {} \/ (t.from_states \cap active) # {}

\* What can_execute returns for the caller's set as it iterates now
CanExecuteNow(t) ==
    \E order \in IterationOrders(active_states, blocking, first_blocking) :
        can_execute(t, active_states, order, blocking)

C22_CanExecuteIsValidate ==
    /\ (ex_pc \notin {"idle", "validate"}) =>
          /\ result.phase_results[1].phase = "VALIDATE"
          /\ ~result.phase_results[1].success <=> ~CanExecuteNow(transition)
    /\ query.op = "can_execute" =>
          LET t == Queried(query.id)
          IN  /\ query.returned = CanExecuteNow(t)
              /\ query.returned => can_fire(t, active_states)
              /\ (active_states \cap blocking = {}) =>
                    (query.returned <=> can_fire(t, active_states))
              /\ (active_states \cap blocking = {} /\ t.from_states = {}) =>
                    query.returned

C22_Witness ==
    /\ ex_pc = "done"
    /\ ~result.phase_results[1].success
    /\ can_fire(transition, active_states)
    /\ first_blocking # "None"

\* C23: in every search node of every strategy, targets_reached is the
\* target set intersected with the union of the active-state sets of the
\* node and all its ancestors; it never shrinks from parent to child, so a
\* target that was activated and later exited still counts as reached (the
\* returned path may end in a configuration without every target).
AncestorStates(i) ==
    LET chain == ParentChain(nodes, i)
    IN  UNION {nodes[chain[k]].active_states : k \in 1..Len(chain)}

C23_TargetsReachedAccumulate ==
    \A i \in 1..Len(nodes) :
        /\ nodes[i].targets_reached = target_states \cap AncestorStates(i)
        /\ nodes[i].parent # 0 =>
              nodes[nodes[i].parent].targets_reached \subseteq nodes[i].targets_reached

C23_Witness ==
    /\ Found
    /\ Len(path[1].transitions_sequence) >= 1
    /\ LET last == path[1].states_sequence[Len(path[1].states_sequence)]
       IN  ~(target_states \subseteq last)
    /\ \E i \in 1..Len(nodes) :
          /\ nodes[i].targets_reached = target_states
          /\ ~(nodes[i].targets_reached \subseteq nodes[i].active_states)

\* C24: for any finite set of states and transitions (cyclic graphs,
\* wildcard and zero-cost transitions included) every strategy of
\* find_path_to_all terminates, each (active_states, targets_reached) pair
\* being expanded at most once: BFS queues a pair once, and Dijkstra / A*
\* close a new pair with every expansion.
QueuedOnce ==
    strategy = "bfs" =>
        \A i, j \in 1..Len(nodes) :
            NodeKey(nodes[i]) = NodeKey(nodes[j]) => i = j

ClosesNewPair ==
    (pf_pc \in {"dijkstra", "astar"} /\ (nodes' # nodes \/ best_costs' # best_costs)) =>
        /\ visited \subseteq visited'
        /\ Cardinality(visited') = Cardinality(visited) + 1

C24_EveryStrategyTerminates ==
    /\ <>Returned
    /\ []QueuedOnce
    /\ [][ClosesNewPair]_vars

C24_Witness ==
    /\ Returned /\ path = << >>
    /\ strategy \in {"dijkstra", "astar"}
    /\ {"p1", "p7", "p4"} \subseteq {transitions[i].id : i \in 1..Len(transitions)}
    /\ Cardinality(visited) >= 3

----------------------------------------------------------------------------
(* TransitionExecutor with a ReliabilityTracker *)

\* The transitions the tracked executor is given
TrackerTransitions ==
    {[t EXCEPT !.stays_visible = sv] :
        t \in {e \in ExecPool : e.id \in {"e1", "e4"}}, sv \in {"MISSING", "NONE"}}

\* TransitionExecutor(reliability_tracker=ReliabilityTracker()) and the
\* caller's set
TrackerInit ==
    /\ GroupsOff
    /\ active_states \in {S \in ActiveSets : "a" \in S}
    /\ blocking \in BlockingChoices
    /\ first_blocking \in FirstBlockingChoices(active_states, blocking)
    /\ success_policy = "strict" /\ success_threshold = 80
    /\ ExecutorIdle
    /\ query = NoQuery
    /\ ManagerOff
    /\ reliability_tracker = "tracker"
    /\ stats = NoStats
    /\ cost_multiplier_on_failure = <<2, 1>>
    /\ min_cost_multiplier = One /\ max_cost_multiplier = <<10, 1>>
    /\ execute_calls = [id \in TrackedIds |-> 0]
    /\ cost_query = NoCost
    /\ transitions = << >> /\ strategy = "bfs"
    /\ current_states = {} /\ target_states = {}
    /\ pf_pc = "off"
    /\ nodes = << >> /\ queue = << >> /\ heap = {}
    /\ visited = {} /\ best_costs = << >> /\ path = << >>

TrackerNext ==
    \/ \E t \in TrackerTransitions, sup \in SuppliedChoices :
          Execute(WithInline(t, sup), << >>)
    \/ \E t \in TrackerTransitions, sup \in SuppliedChoices :
          Execute(t, <<Registry(t, sup)>>)
    \/ ValidateReject
    \/ ValidatePass
    \/ OutgoingFail
    \/ OutgoingPass
    \/ Activate
    \/ IncomingStep
    \/ IncomingReject
    \/ IncomingAccept
    \/ Exit
    \/ VisibilityRaises
    \/ VisibilityPass
    \/ Cleanup
    \/ Return

TrackerSpec == TrackerInit /\ [][TrackerNext]_vars

\* C25: with a reliability tracker configured, every execute call reports
\* exactly one outcome for the transition id: record_success iff the result
\* has success = True, otherwise record_failure, whatever phase failed; so
\* success_count + failure_count is the number of execute calls for that id.
Reported(id) == stats[id].success_count + stats[id].failure_count

InFlight(id) ==
    IF ex_pc \notin {"idle", "done"} /\ transition.id = id THEN 1 ELSE 0

OneOutcomePerCall ==
    \A id \in TrackedIds : Reported(id) + InFlight(id) = execute_calls[id]

OutcomeMatchesResult ==
    (ex_pc # "done" /\ ex_pc' = "done") =>
        \A id \in TrackedIds :
            /\ stats'[id].success_count = stats[id].success_count +
                  (IF id = transition.id /\ result'.success THEN 1 ELSE 0)
            /\ stats'[id].failure_count = stats[id].failure_count +
                  (IF id = transition.id /\ ~result'.success THEN 1 ELSE 0)

C25_OneReportPerExecute ==
    /\ []OneOutcomePerCall
    /\ [][OutcomeMatchesResult]_vars

C25_Witness ==
    /\ ex_pc = "done"
    /\ result.error # "None"
    /\ stats[transition.id].failure_count = 1
    /\ \E id \in TrackedIds : stats[id].success_count = 1
    /\ TotalCalls = 2

----------------------------------------------------------------------------
(* ReliabilityTracker used on its own *)

\* ReliabilityTracker.__init__ arguments: cost_multiplier_on_failure,
\* min_cost_multiplier, max_cost_multiplier (the defaults first)
CostConfigs ==
    { << <<2, 1>>, <<1, 1>>, <<10, 1>> >>,
      << <<5, 1>>, <<1, 2>>, <<3, 1>> >>,
      << <<1, 2>>, <<1, 1>>, <<10, 1>> >>,
      << <<5, 1>>, <<3, 1>>, <<1, 1>> >> }

\* The base costs get_dynamic_cost is asked with
BaseCosts == { <<1, 1>>, <<2, 1>>, <<1, 2>>, <<0, 1>> }

\* The ids the tracker is used with
CostIds == {"e1", "e2"}

\* How many outcomes were recorded
TotalRecords ==
    total_attempts(stats["e1"]) + total_attempts(stats["e2"])
    + total_attempts(stats["e3"]) + total_attempts(stats["e4"])
    + total_attempts(stats["e5"]) + total_attempts(stats["e6"])

\* tracker.record_success(id)
RecordSuccess(id) ==
    /\ TotalRecords < MaxCalls
    /\ stats' = record_success(stats, id)
    /\ UNCHANGED sg_vars
    /\ UNCHANGED <<reliability_tracker, cost_multiplier_on_failure,
                   min_cost_multiplier, max_cost_multiplier, execute_calls, cost_query>>
    /\ UNCHANGED <<pf_vars, ex_vars, mg_vars>>

\* tracker.record_failure(id)
RecordFailure(id) ==
    /\ TotalRecords < MaxCalls
    /\ stats' = record_failure(stats, id)
    /\ UNCHANGED sg_vars
    /\ UNCHANGED <<reliability_tracker, cost_multiplier_on_failure,
                   min_cost_multiplier, max_cost_multiplier, execute_calls, cost_query>>
    /\ UNCHANGED <<pf_vars, ex_vars, mg_vars>>

\* tracker.get_dynamic_cost(id, base_cost): the base cost is stored in the
\* entry and the adjusted cost returned
GetDynamicCost(id, base_cost) ==
    /\ stats' = [stats EXCEPT ![id].base_cost = base_cost]
    /\ cost_query' = [id |-> id, base_cost |-> base_cost,
                      returned |-> get_dynamic_cost(stats[id], cost_multiplier_on_failure,
                                                    min_cost_multiplier,
                                                    max_cost_multiplier, base_cost)]
    /\ UNCHANGED sg_vars
    /\ UNCHANGED <<reliability_tracker, cost_multiplier_on_failure,
                   min_cost_multiplier, max_cost_multiplier, execute_calls>>
    /\ UNCHANGED <<pf_vars, ex_vars, mg_vars>>

\* tracker.reset_stats(id), tracker.reset_stats()
ResetStats(id) ==
    /\ stats' = reset_stats(stats, id)
    /\ UNCHANGED sg_vars
    /\ UNCHANGED <<reliability_tracker, cost_multiplier_on_failure,
                   min_cost_multiplier, max_cost_multiplier, execute_calls, cost_query>>
    /\ UNCHANGED <<pf_vars, ex_vars, mg_vars>>

\* ReliabilityTracker(...) as built
CostInit ==
    /\ GroupsOff
    /\ \E cfg \in CostConfigs :
          /\ cost_multiplier_on_failure = cfg[1]
          /\ min_cost_multiplier = cfg[2]
          /\ max_cost_multiplier = cfg[3]
    /\ reliability_tracker = "None"
    /\ stats = NoStats
    /\ execute_calls = [id \in TrackedIds |-> 0]
    /\ cost_query = NoCost
    /\ active_states = {} /\ blocking = {}
    /\ first_blocking = "None"
    /\ success_policy = "strict" /\ success_threshold = 80
    /\ ExecutorIdle
    /\ query = NoQuery
    /\ ManagerOff
    /\ transitions = << >> /\ strategy = "bfs"
    /\ current_states = {} /\ target_states = {}
    /\ pf_pc = "off"
    /\ nodes = << >> /\ queue = << >> /\ heap = {}
    /\ visited = {} /\ best_costs = << >> /\ path = << >>

CostNext ==
    \/ \E id \in CostIds : RecordSuccess(id)
    \/ \E id \in CostIds : RecordFailure(id)
    \/ \E id \in CostIds, base_cost \in BaseCosts : GetDynamicCost(id, base_cost)
    \/ \E id \in CostIds \cup {"None"} : ResetStats(id)

CostSpec == CostInit /\ [][CostNext]_vars

\* C26: get_dynamic_cost(id, base) returns
\* base x clamp(1 + failure_rate x (penalty - 1), min_multiplier, max_multiplier)
\* with failure_rate = failures / attempts for that id, and base unchanged
\* when no attempt was recorded; so with recorded attempts the result lies
\* between base x min_multiplier and base x max_multiplier.
Clamp(x, lo, hi) == FracMin(hi, FracMax(lo, x))

ExpectedCost(st, base_cost) ==
    LET attempts == st.success_count + st.failure_count
        rate == Frac(st.failure_count, attempts)
    IN  FracMul(base_cost,
                Clamp(FracAdd(One, FracMul(rate, FracSub(cost_multiplier_on_failure, One))),
                      min_cost_multiplier, max_cost_multiplier))

Between(x, a, b) == (FracLeq(a, x) /\ FracLeq(x, b)) \/ (FracLeq(b, x) /\ FracLeq(x, a))

DynamicCostFormula ==
    (cost_query' # cost_query) =>
        LET st == stats[cost_query'.id]
            base_cost == cost_query'.base_cost
        IN  IF st.success_count + st.failure_count = 0
            THEN cost_query'.returned = base_cost
            ELSE /\ cost_query'.returned = ExpectedCost(st, base_cost)
                 /\ Between(cost_query'.returned,
                            FracMul(base_cost, min_cost_multiplier),
                            FracMul(base_cost, max_cost_multiplier))

C26_DynamicCost == [][DynamicCostFormula]_vars

C26_Witness ==
    /\ cost_query.id = "e1"
    /\ stats["e1"].success_count = 1 /\ stats["e1"].failure_count = 1
    /\ cost_multiplier_on_failure = <<5, 1>> /\ max_cost_multiplier = <<3, 1>>
    /\ cost_query.base_cost = <<2, 1>>
    /\ cost_query.returned = <<6, 1>>

----------------------------------------------------------------------------
(* MultiTargetPathFinder built with and without a reliability tracker *)

\* MultiTargetPathFinder(transitions, strategy): both parameters are stored
Construct ==
    /\ pf_pc = "off"
    /\ pf_pc' = "ready"
    /\ UNCHANGED <<transitions, strategy, current_states, target_states,
                   nodes, queue, heap, visited, best_costs, path>>
    /\ UNCHANGED sg_vars
    /\ UNCHANGED <<ex_vars, mg_vars, rt_vars>>

\* MultiTargetPathFinder(transitions, strategy, reliability_tracker=tracker):
\* __init__ has no such parameter, the call raises TypeError and no finder
\* comes to exist
ConstructWithTracker ==
    /\ pf_pc = "off"
    /\ pf_pc' = "TypeError"
    /\ UNCHANGED <<transitions, strategy, current_states, target_states,
                   nodes, queue, heap, visited, best_costs, path>>
    /\ UNCHANGED sg_vars
    /\ UNCHANGED <<ex_vars, mg_vars, rt_vars>>

\* The arguments of the constructor call of the reliability example
ProviderInit ==
    /\ GroupsOff
    /\ TrackerOff
    /\ active_states = {} /\ blocking = {}
    /\ first_blocking = "None"
    /\ success_policy = "strict" /\ success_threshold = 80
    /\ ExecutorIdle
    /\ query = NoQuery
    /\ ManagerOff
    /\ transitions \in SubLists(PathPool, MaxTransitions)
    /\ strategy = "dijkstra"
    /\ current_states = {} /\ target_states = {}
    /\ pf_pc = "off"
    /\ nodes = << >> /\ queue = << >> /\ heap = {} /\ visited = {}
    /\ best_costs = << >>
    /\ path = << >>

ProviderNext ==
    \/ Construct
    \/ ConstructWithTracker
    \/ \E ts \in TargetSets, cs \in StartConfigs : FindPathNoTargets(cs, ts)
    \/ \E ts \in TargetSets, cs \in StartConfigs : FindPathAlreadyThere(cs, ts)
    \/ \E ts \in TargetSets, cs \in StartConfigs : DijkstraStart(cs, ts)
    \/ DijkstraSkip \/ DijkstraGoal \/ DijkstraIterate \/ DijkstraExhausted

ProviderSpec == ProviderInit /\ [][ProviderNext]_vars

\* C27: a pathfinder built with an injected reliability tracker exists and
\* searches with the tracker's dynamic costs; in particular building it with
\* the tracker never fails.
C27_ProviderInjected == pf_pc # "TypeError"

----------------------------------------------------------------------------
(* StateGroup: construction, add_state, remove_state *)

\* StateGroup.__post_init__: the loop over self.states in the order the set
\* yields them; every state met before a conflicting one has its group set
RECURSIVE post_init(_, _, _)
post_init(grp, id, order) ==
    IF order = << >>
    THEN [group |-> grp, raised |-> FALSE]
    ELSE LET state == Head(order)
         IN  IF grp[state] # "None" /\ grp[state] # id
             THEN [group |-> grp, raised |-> TRUE]
             ELSE post_init([grp EXCEPT ![state] = id], id, Tail(order))

\* StateGroup(id, name, states=S) returns the new group
NewStateGroup(id, S) ==
    /\ id \notin sg_built
    /\ \E order \in Orders(S) :
          LET r == post_init(group, id, order)
          IN  /\ ~r.raised
              /\ group' = r.group
    /\ sg_built' = sg_built \cup {id}
    /\ sg_states' = [sg_states EXCEPT ![id] = S]
    /\ sg_call' = [op |-> "StateGroup", id |-> id, states |-> S, raised |-> FALSE]
    /\ UNCHANGED <<pf_vars, ex_vars, mg_vars, rt_vars>>

\* StateGroup(id, name, states=S) raises ValueError from __post_init__: no
\* group object is returned, the State objects keep what the loop wrote
NewStateGroupRaises(id, S) ==
    /\ id \notin sg_built
    /\ \E order \in Orders(S) :
          LET r == post_init(group, id, order)
          IN  /\ r.raised
              /\ group' = r.group
    /\ sg_call' = [op |-> "StateGroup", id |-> id, states |-> S, raised |-> TRUE]
    /\ UNCHANGED <<sg_built, sg_states>>
    /\ UNCHANGED <<pf_vars, ex_vars, mg_vars, rt_vars>>

\* group.add_state(state)
add_state(id, state) ==
    /\ id \in sg_built
    /\ ~(group[state] # "None" /\ group[state] # id)
    /\ group' = [group EXCEPT ![state] = id]
    /\ sg_states' = [sg_states EXCEPT ![id] = @ \cup {state}]
    /\ sg_call' = [op |-> "add_state", id |-> id, states |-> {state}, raised |-> FALSE]
    /\ UNCHANGED sg_built
    /\ UNCHANGED <<pf_vars, ex_vars, mg_vars, rt_vars>>

\* group.add_state(state) raises ValueError
add_state_raises(id, state) ==
    /\ id \in sg_built
    /\ group[state] # "None" /\ group[state] # id
    /\ sg_call' = [op |-> "add_state", id |-> id, states |-> {state}, raised |-> TRUE]
    /\ UNCHANGED <<group, sg_built, sg_states>>
    /\ UNCHANGED <<pf_vars, ex_vars, mg_vars, rt_vars>>

\* group.remove_state(state)
remove_state(id, state) ==
    /\ id \in sg_built
    /\ IF state \in sg_states[id]
       THEN /\ group' = [group EXCEPT ![state] = "None"]
            /\ sg_states' = [sg_states EXCEPT ![id] = @ \ {state}]
       ELSE UNCHANGED <<group, sg_states>>
    /\ sg_call' = [op |-> "remove_state", id |-> id, states |-> {state}, raised |-> FALSE]
    /\ UNCHANGED sg_built
    /\ UNCHANGED <<pf_vars, ex_vars, mg_vars, rt_vars>>

GroupInit ==
    /\ GroupsOff
    /\ TrackerOff
    /\ active_states = {} /\ blocking = {}
    /\ first_blocking = "None"
    /\ success_policy = "strict" /\ success_threshold = 80
    /\ ExecutorIdle
    /\ query = NoQuery
    /\ ManagerOff
    /\ transitions = << >> /\ strategy = "bfs"
    /\ current_states = {} /\ target_states = {}
    /\ pf_pc = "off"
    /\ nodes = << >> /\ queue = << >> /\ heap = {}
    /\ visited = {} /\ best_costs = << >> /\ path = << >>

GroupNext ==
    \/ \E id \in SgIds, S \in SUBSET SgStates : NewStateGroup(id, S)
    \/ \E id \in SgIds, S \in SUBSET SgStates : NewStateGroupRaises(id, S)
    \/ \E id \in SgIds, state \in SgStates : add_state(id, state)
    \/ \E id \in SgIds, state \in SgStates : add_state_raises(id, state)
    \/ \E id \in SgIds, state \in SgStates : remove_state(id, state)

GroupSpec == GroupInit /\ [][GroupNext]_vars

\* The groups that contain a state
Containing(state) == {g \in sg_built : state \in sg_states[g]}

AtMostOneGroup == \A state \in SgStates : Cardinality(Containing(state)) <= 1

GroupFieldMatches ==
    \A state \in SgStates : (group[state] # "None") <=> (Containing(state) = {group[state]})

AddToSecondGroupRaises ==
    (sg_call' # sg_call /\ sg_call'.op = "add_state"
     /\ \E state \in sg_call'.states : Containing(state) \ {sg_call'.id} # {})
        => sg_call'.raised

\* C28: after any sequence of StateGroup constructions, add_state and
\* remove_state calls every state is in at most one group and its group field
\* is set iff exactly one group contains it, whose id the field holds; adding
\* a state of another group raises ValueError.
C28_GroupMembership ==
    /\ [](AtMostOneGroup /\ GroupFieldMatches)
    /\ [][AddToSecondGroupRaises]_vars

----------------------------------------------------------------------------
\* The entries of the result being built for a phase
PhaseEntries(phase) ==
    IF ex_pc = "idle" THEN {}
    ELSE {i \in 1..Len(result.phase_results) : result.phase_results[i].phase = phase}

NoFailedActivateOrExit ==
    \A i \in PhaseEntries("ACTIVATE") \cup PhaseEntries("EXIT") :
        result.phase_results[i].success

\* Leaving the phase at pc appends a successful entry for it
RecordsSuccess(pc, phase) ==
    (ex_pc = pc /\ ex_pc' # pc) =>
        /\ Len(result'.phase_results) = Len(result.phase_results) + 1
        /\ result'.phase_results[Len(result'.phase_results)].phase = phase
        /\ result'.phase_results[Len(result'.phase_results)].success

\* C29: whenever execute reaches ACTIVATE it records ACTIVATE as successful,
\* whenever it reaches EXIT it records EXIT as successful, and no result
\* contains a failed ACTIVATE or EXIT entry.
C29_ActivateExitInfallible ==
    /\ []NoFailedActivateOrExit
    /\ [][RecordsSuccess("activate", "ACTIVATE") /\ RecordsSuccess("exit", "EXIT")]_vars

C29_Witness ==
    /\ ex_pc = "done"
    /\ ~result.success
    /\ PhaseEntries("ACTIVATE") # {}
    /\ PhaseEntries("EXIT") # {}

----------------------------------------------------------------------------
\* With allow_invalid_transitions false an execution only starts on a
\* transition that can execute
StartsOnlyIfExecutable ==
    (mg_pc = "idle" /\ mg_pc' = "executing" /\ ~config.allow_invalid_transitions)
        => CanExecuteNow(transition')

\* A call that raises InvalidTransitionError leaves the history alone
RaiseLeavesHistory ==
    (mg_returned' = "InvalidTransitionError" /\ mg_returned # "InvalidTransitionError")
        => /\ ~config.allow_invalid_transitions
           /\ \E t \in ManagerTransitions : ~CanExecuteNow(t)
           /\ transition_history' = transition_history
           /\ mg_pc' = "idle"

\* An execution of a transition that cannot execute returns False and appends
\* one failed entry
RefusedReturnsFalse ==
    (mg_pc = "executing" /\ mg_pc' = "idle" /\ ~CanExecuteNow(transition))
        => /\ config.allow_invalid_transitions
           /\ mg_returned' = "False"
           /\ Len(transition_history') = Len(transition_history) + 1
           /\ SubSeq(transition_history', 1, Len(transition_history)) = transition_history
           /\ transition_history'[Len(transition_history')].transition_id = transition.id
           /\ ~transition_history'[Len(transition_history')].success

\* C30: execute_transition on a transition that cannot execute from the
\* current active set raises InvalidTransitionError when
\* allow_invalid_transitions is false, appending nothing to the history, and
\* returns False without raising when it is true, appending exactly one entry
\* with success=False.
C30_InvalidTransitionHandling ==
    [][StartsOnlyIfExecutable /\ RaiseLeavesHistory /\ RefusedReturnsFalse]_vars

C30_Witness ==
    /\ mg_pc = "idle"
    /\ config.allow_invalid_transitions
    /\ mg_returned = "False"
    /\ transition_history # << >>
    /\ transition_history[Len(transition_history)].failed_phase = "VALIDATE"

----------------------------------------------------------------------------
(* The shape of a returned path *)

\* The transition of the finder's list a transitions_sequence entry names
TransitionOf(id) == transitions[CHOOSE i \in 1..Len(transitions) : transitions[i].id = id]

\* C33: every returned path is a well-formed chain: states_sequence has one
\* more entry than transitions_sequence, starts with the start configuration,
\* and every transition can fire from the configuration before it and leads
\* to (that configuration minus its exit-set) union its activate-set.
C33_WellFormedChain ==
    Found =>
        LET ss == path[1].states_sequence
            ts == path[1].transitions_sequence
        IN  /\ Len(ss) = Len(ts) + 1
            /\ ss[1] = current_states
            /\ \A i \in 1..Len(ts) :
                  /\ can_execute_from(TransitionOf(ts[i]), ss[i])
                  /\ ss[i + 1] = (ss[i] \ get_all_states_to_exit(TransitionOf(ts[i])))
                                     \cup get_all_states_to_activate(TransitionOf(ts[i]))

C33_Witness ==
    /\ Found
    /\ Len(path[1].transitions_sequence) >= 2
    /\ \E i \in 1..Len(path[1].transitions_sequence) :
          TransitionOf(path[1].transitions_sequence[i]).from_states = {}
    /\ \E i \in 1..Len(path[1].transitions_sequence) :
          get_all_states_to_exit(TransitionOf(path[1].transitions_sequence[i])) # {}

\* The sum of path_cost over a sequence of transition ids
RECURSIVE SumPathCost(_)
SumPathCost(ids) ==
    IF ids = << >> THEN 0
    ELSE TransitionOf(Head(ids)).path_cost + SumPathCost(Tail(ids))

\* C34: for every strategy, BFS included, the total_cost of a returned path
\* is the sum of path_cost over its transitions_sequence.
C34_TotalCostIsSum ==
    Found => path[1].total_cost = SumPathCost(path[1].transitions_sequence)

C34_Witness ==
    /\ Found /\ strategy = "bfs"
    /\ Len(path[1].transitions_sequence) >= 2
    /\ path[1].total_cost >= 4

----------------------------------------------------------------------------
\* C35: every failed execute (at VALIDATE, at OUTGOING, at INCOMING by the
\* policy, or with a captured exception) returns a result whose
\* activated_states and deactivated_states are empty, so committing the
\* returned delta leaves the caller's active set as it was; non-empty deltas
\* occur only with success=True.
C35_FailedResultHasNoDelta ==
    (ex_pc # "idle" /\ ~result.success) =>
        /\ result.activated_states = {}
        /\ result.deactivated_states = {}
        /\ (active_states \cup result.activated_states) \ result.deactivated_states
              = active_states

C35_Witness ==
    /\ ex_pc = "done" /\ ~result.success
    /\ get_failed_phase(result) = "INCOMING"
    /\ successfully_activated # {}
    /\ get_all_states_to_exit(transition) # {}
    /\ result.activated_states = {}

----------------------------------------------------------------------------
\* The configuration a caller gets by committing the returned delta in the
\* executor's phase order: ACTIVATE, then EXIT
CommitDelta(active, r) == (active \cup r.activated_states) \ r.deactivated_states

\* C36: for every successful execute on active set A, committing the returned
\* delta in phase order (add activated_states, then remove deactivated_states)
\* yields get_result_states(transition, A), also when the activate-set and the
\* exit-set overlap.
C36_DeltaMatchesResultStates ==
    (ex_pc = "done" /\ result.success) =>
        CommitDelta(active_states, result) = ResultStates(transition, active_states)

----------------------------------------------------------------------------
\* What activate_states(S) must leave active
ActivatePost(S) ==
    LET B == S \cap blocking
    IN  /\ (\E s \in B : StateGroupOf(s) = "None") => active_states' = S
        /\ \A s \in B : StateGroupOf(s) # "None" =>
              active_states' \subseteq
                  S \cup (active_states \cap GroupStates[StateGroupOf(s)])
        /\ (Cardinality(B) = 1 /\ \A s \in B : StateGroupOf(s) # "None") =>
              \A s \in B : active_states' =
                  S \cup (active_states \cap GroupStates[StateGroupOf(s)])

\* C32: activate_states(S) with a blocking state of no group in S leaves
\* exactly S active; if the blocking state belongs to a group, only the
\* previously active members of that group survive alongside S.
C32_BlockingActivationClears ==
    [][\A S \in ActiveSets \ {{}} : MgrActivateStates(S) => ActivatePost(S)]_vars

C32_Witness ==
    /\ mg_pc = "idle"
    /\ "c" \in blocking
    /\ active_states = {"c", "d"}
    /\ transition_history = << >>

----------------------------------------------------------------------------
\* A blocking state that belongs to no group is active
UngroupedBlockerActive ==
    \E s \in active_states \cap blocking : StateGroupOf(s) = "None"

ExecutionKeepsActiveSet ==
    (UngroupedBlockerActive /\ mg_pc = "executing" /\ mg_pc' = "idle")
        => active_states' = active_states

\* C38: once a blocking state of no group is active, can_execute is false
\* for every transition (also for those that only exit states or exit the
\* blocking state itself), so no execute_transition call changes the active
\* set again.
C38_BlockedForever ==
    /\ [](UngroupedBlockerActive => \A t \in ManagerTransitions : ~CanExecuteNow(t))
    /\ [][ExecutionKeepsActiveSet]_vars

----------------------------------------------------------------------------
\* A StateGroup call that raises ValueError
RegistrationRaises ==
    \/ \E id \in SgIds, S \in SUBSET SgStates : NewStateGroupRaises(id, S)
    \/ \E id \in SgIds, state \in SgStates : add_state_raises(id, state)

\* C40: a failed group registration changes nothing: when constructing a
\* StateGroup or calling add_state raises ValueError, every state's group
\* field is what it was before the call.
C40_FailedRegistrationChangesNothing ==
    [][RegistrationRaises => group' = group]_vars

----------------------------------------------------------------------------
\* The execution being finished evaluated its incoming actions, some failed,
\* and the LENIENT policy accepts them
LenientlyAcceptable ==
    /\ config.success_policy = "lenient"
    /\ \E i \in 1..Len(result.phase_results) : result.phase_results[i].phase = "INCOMING"
    /\ failed_incoming # {}
    /\ _evaluate_incoming_success("lenient", success_threshold,
                                  successfully_activated, failed_incoming)

\* C39: the policy configured in StateManagerConfig.success_policy governs
\* execute_transition: with LENIENT configured, a transition whose incoming
\* callback fails for some activated state still succeeds and is committed to
\* the active set.
C39_ConfiguredPolicyGoverns ==
    [][(mg_pc = "executing" /\ mg_pc' = "idle" /\ LenientlyAcceptable)
          => /\ get_failed_phase(result) # "INCOMING"
             /\ result.error = "None" =>
                   /\ mg_returned' = "True"
                   /\ active_states' = ResultStates(transition, initial_states)]_vars

----------------------------------------------------------------------------
(* StateManager: find_path_to, then execute_path *)

\* The transitions given to add_transition
NavPool == SubSeq(PathPool, 1, 5)

\* add_transition builds Transition objects without a stays_visible
\* attribute ("MISSING"); the caller may set one on the returned objects
NavTransitions(stays_visible) ==
    {[k \in 1..Len(list) |-> [list[k] EXCEPT !.stays_visible = stays_visible]] :
        list \in SubLists(NavPool, MaxTransitions)}

\* The transition execute_path is at: one history entry per execute_transition
NextOfPath == TransitionOf(path[1].transitions_sequence[Len(transition_history) + 1])

\* execute_path goes on: a path was found, no execute_transition has failed
\* or raised, and transitions are left
ExecutePathGoesOn ==
    /\ pf_pc = "done" /\ path # << >>
    /\ mg_pc = "idle"
    /\ mg_returned \notin {"False", "InvalidTransitionError"}
    /\ Len(transition_history) < Len(path[1].transitions_sequence)

\* execute_path: execute_transition(transition.id) raises
ExecutePathRaises ==
    /\ ExecutePathGoesOn
    /\ ~config.allow_invalid_transitions
    /\ \E order \in IterationOrders(active_states, blocking, first_blocking) :
          ~can_execute(NextOfPath, active_states, order, blocking)
    /\ mg_returned' = "InvalidTransitionError"
    /\ UNCHANGED <<mg_pc, config, initial_states, transition_history>>
    /\ UNCHANGED <<pf_vars, ex_vars, sg_vars, rt_vars>>

\* execute_path: execute_transition(transition.id) starts the executor with
\* the manager's callback registry, in which nothing is registered
ExecutePathStep ==
    /\ ExecutePathGoesOn
    /\ \/ config.allow_invalid_transitions
       \/ \E order \in IterationOrders(active_states, blocking, first_blocking) :
             can_execute(NextOfPath, active_states, order, blocking)
    /\ initial_states' = active_states
    /\ mg_pc' = "executing"
    /\ ex_pc' = "validate"
    /\ transition' = NextOfPath
    /\ callbacks' = <<TransitionCallbacks({}, {})>>
    /\ result' = TransitionResult(FALSE, << >>, {}, {}, "None")
    /\ successfully_activated' = {} /\ failed_incoming' = {}
    /\ incoming_results' = << >>
    /\ outgoing_calls' = 0
    /\ incoming_calls' = [s \in StateIds |-> 0]
    /\ last_call' = NoCall
    /\ mg_returned' = "None"
    /\ UNCHANGED <<active_states, blocking, success_policy, success_threshold, query,
                   first_blocking>>
    /\ UNCHANGED <<config, transition_history>>
    /\ UNCHANGED <<pf_vars, sg_vars, rt_vars>>

\* find_path_to: _rebuild_pathfinder builds a finder only when transitions
\* were added
HasPathfinder == transitions # << >>

\* find_path_to without a finder returns None; nothing is searched
FindPathToNoPathfinder ==
    /\ pf_pc = "ready"
    /\ ~HasPathfinder
    /\ path' = << >>
    /\ pf_pc' = "done"
    /\ UNCHANGED <<ex_vars, mg_vars, sg_vars, rt_vars>>
    /\ UNCHANGED <<transitions, strategy, current_states, target_states,
                   nodes, queue, heap, visited, best_costs>>

\* find_path_to with a finder: find_path_to_all(self.active_states, targets)
\* with the configured strategy
FindPathToNoTargets(ts) ==
    HasPathfinder /\ FindPathNoTargets(active_states, ts)

FindPathToAlreadyThere(ts) ==
    HasPathfinder /\ FindPathAlreadyThere(active_states, ts)

FindPathToSearch(ts) ==
    HasPathfinder /\ DijkstraStart(active_states, ts)

\* A StateManager with default configuration, its states, transitions and
\* active set
NavigateInit ==
    /\ GroupsOff
    /\ TrackerOff
    /\ active_states \in StartConfigs
    /\ blocking \in {{}, {"b"}}
    /\ first_blocking \in FirstBlockingChoices(active_states, blocking)
    /\ success_policy = "strict" /\ success_threshold = 80
    /\ ExecutorIdle
    /\ query = NoQuery
    /\ mg_pc = "idle"
    /\ config = StateManagerConfig(FALSE, TRUE, "strict")
    /\ initial_states = {}
    /\ transition_history = << >>
    /\ mg_returned = "None"
    /\ transitions \in NavTransitions("MISSING") \cup NavTransitions("NONE")
    /\ strategy = "dijkstra"
    /\ current_states = {} /\ target_states = {}
    /\ pf_pc = "ready"
    /\ nodes = << >> /\ queue = << >> /\ heap = {} /\ visited = {}
    /\ best_costs = << >>
    /\ path = << >>

NavigateNext ==
    \/ FindPathToNoPathfinder
    \/ \E ts \in TargetSets : FindPathToNoTargets(ts)
    \/ \E ts \in TargetSets : FindPathToAlreadyThere(ts)
    \/ \E ts \in TargetSets : FindPathToSearch(ts)
    \/ DijkstraSkip \/ DijkstraGoal \/ DijkstraIterate \/ DijkstraExhausted
    \/ ExecutePathRaises
    \/ ExecutePathStep
    \/ ValidatePass
    \/ OutgoingPass
    \/ Activate
    \/ IncomingStep
    \/ IncomingAccept
    \/ Exit
    \/ VisibilityRaises
    \/ VisibilityPass
    \/ Cleanup
    \/ MgrFinish

NavigateSpec == NavigateInit /\ [][NavigateNext]_vars

\* execute_path has returned or raised
ExecutePathOver ==
    /\ pf_pc = "done" /\ path # << >>
    /\ mg_pc = "idle"
    /\ \/ mg_returned \in {"False", "InvalidTransitionError"}
       \/ Len(transition_history) = Len(path[1].transitions_sequence)

\* C31: without blocking states and with all callbacks succeeding, replaying
\* a path returned by find_path_to through execute_path from the
\* configuration it was planned from executes every transition successfully
\* and ends with the active set equal to the last snapshot of states_sequence.
C31_PlannedPathReplays ==
    (ExecutePathOver /\ blocking = {}) =>
        /\ Len(transition_history) = Len(path[1].transitions_sequence)
        /\ \A i \in 1..Len(transition_history) : transition_history[i].success
        /\ active_states = path[1].states_sequence[Len(path[1].states_sequence)]

\* C37: every plan returned by find_path_to_all is replayable through the
\* executor: can_execute(transitions_sequence[i], states_sequence[i]) is true
\* for every i, also when some state is blocking.
C37_PlanPassesCanExecute ==
    Found =>
        \A i \in 1..Len(path[1].transitions_sequence) :
            \E order \in Orders(path[1].states_sequence[i]) :
                can_execute(TransitionOf(path[1].transitions_sequence[i]),
                            path[1].states_sequence[i], order, blocking)

====
